---- MODULE Spec2Model ----
(***************************************************************************)
(* Model of the recursive call-graph analysis engine of reqgen:            *)
(* CodeFlowAnalyzer (flow/analyzer.ts), InMemoryMethodCache (flow/cache.ts)*)
(* and PersistentAnalysisCache (flow/persistentCache.ts).                  *)
(*                                                                         *)
(* The asynchronous recursion of the analyzer is modelled with an explicit *)
(* control stack; MethodAnalysis objects live in a heap so that object     *)
(* identity and in-place mutation are visible.  The clock unit is one      *)
(* second.                                                                 *)
(***************************************************************************)
EXTENDS Integers, Sequences, FiniteSets, TLC

VARIABLES
  world,          \* workspace files, oracle behaviour, available models
  content,        \* current content version of each class's source file
  now,            \* Date.now()
  cache,          \* InMemoryMethodCache.cache (Map, insertion order)
  stats,          \* InMemoryMethodCache.stats
  pentries,       \* PersistentAnalysisCache.entries (Map, insertion order)
  selectedModel,  \* CodeFlowAnalyzer.selectedModel ("none" = null)
  heap,           \* MethodAnalysis objects, index = object identity
  linearFlow,     \* CodeFlowAnalyzer.linearFlow
  session,        \* the AnalysisSession of the running analyzeMethodFlow
  stack,          \* control stack of the running asynchronous call
  ret,            \* value handed from a returning call to its caller
  result,         \* outcome of the last top-level call
  hist,           \* history of oracle invocations and returned objects
  input,          \* argument handed to a pure function of the program
  output          \* what the function returned for it

vars == <<world, content, now, cache, stats, pentries, selectedModel, heap,
          linearFlow, session, stack, ret, result, hist, input, output>>

----------------------------------------------------------------------------
(* Bounds of the model *)

MaxEvents == 1         \* environment events (clock, edit, reset, clear) per behaviour
MaxTopCalls == 3       \* top-level calls per behaviour
MaxSuggestionDepth == 3 \* nesting of performMethodAnalysis via suggestions
StackLimit == 6        \* frames the runtime gives to the walkthrough recursion
MaxLen == 3            \* length of the lists handed to the pure functions
MaxCalls == 5          \* calls made on the in-memory cache on its own

(* Program constants *)

maxEntries == 100              \* createMethodAnalysisCache default
expiryMs == 300                \* 300000 ms = 5 minutes, in seconds
MAX_CACHE_AGE_MS == 2592000    \* 30 days, in seconds
MAX_CACHE_ENTRIES == 1000
maxCallStackDepth == 5         \* ANALYSIS_CONFIG
maxTotalMethods == 15          \* ANALYSIS_CONFIG
maxAnalysisTimeMs == 60        \* ANALYSIS_CONFIG, 60000 ms in seconds

----------------------------------------------------------------------------
(* Generic helpers *)

Last(s) == s[Len(s)]
Front(s) == SubSeq(s, 1, Len(s) - 1)
Range(s) == {s[i] : i \in 1..Len(s)}

RECURSIVE Flatten(_)
Flatten(ss) == IF ss = <<>> THEN <<>> ELSE Head(ss) \o Flatten(Tail(ss))

\* index of the first element of s satisfying key = k, 0 if none (Map lookup)
IndexOfKey(s, k) ==
  IF \E i \in 1..Len(s) : s[i].key = k
  THEN CHOOSE i \in 1..Len(s) : s[i].key = k /\ \A j \in 1..(i-1) : s[j].key # k
  ELSE 0

\* Map.delete
MapDelete(s, k) == SelectSeq(s, LAMBDA e : e.key # k)

\* Map.set: an existing key keeps its position, a new key goes last
MapSet(s, e) ==
  IF IndexOfKey(s, e.key) = 0 THEN Append(s, e)
  ELSE [s EXCEPT ![IndexOfKey(s, e.key)] = e]

----------------------------------------------------------------------------
(* The analysed code base and the oracle *)

Classes == {"A", "B", "C", "D", "E", "F"}
Methods == {"f"}
Keys == Classes \X Methods
\* a bare call citation is attributed to the class 'Unknown'
CallKeys == (Classes \cup {"Unknown"}) \X Methods
Models == {"M1", "M2"}

NoHash == <<>>
\* content of the source file of class c at version v
FileContent(c, v) == <<c, v>>
\* generateContentHash (md5) and calculateContentHash (sha256): injective
generateContentHash(text) == <<"md5">> \o text
calculateContentHash(text) == <<"sha256">> \o text

\* A call citation of a response: - **Call**: `...` ... - **Classification**: ... (...)
Citation(form, c, m, phrase) ==
  [form |-> form, className |-> c, methodName |-> m, parameters |-> "",
   classification |-> phrase]
StepInto(c) == Citation("qualified", c, "f", "Step Into")
External(c) == Citation("qualified", c, "f", "External")
Lookup(c) == Citation("qualified", c, "f", "Object Lookup")

\* A block of a response: #### Block n: description / **Type**: type
Blk(desc, type, calls) == [description |-> <<desc>>, type |-> type, calls |-> calls]

\* A response of the oracle: it throws, times out, or streams a text, of which
\* the model keeps the not-found phrases, the blocks and the suggestions.
Resp(outcome, phrases, blocks, ext, alt, impl) ==
  [outcome |-> outcome, phrases |-> phrases, blocks |-> blocks,
   extends |-> ext, alternatives |-> alt, implements |-> impl]
TextResp(blocks) == Resp("text", {}, blocks, <<>>, <<>>, <<>>)
Calls(cs) == TextResp(<<Blk("body", "MethodCall", cs)>>)
Leaf == TextResp(<<Blk("work", "Assignment", <<>>), Blk("result", "Return", <<>>)>>)
NotFound(ext, alt) == Resp("text", {"Method not found"}, <<>>, ext, alt, <<>>)
Garbage == TextResp(<<>>)
OracleError == Resp("error", {}, <<>>, <<>>, <<>>, <<>>)
OracleTimeout == Resp("timeout", {}, <<>>, <<>>, <<>>, <<>>)
\* sendRequest resolves in time and the text of the response then streams
\* for longer than maxAnalysisTimeMs
SlowStream(blocks) == Resp("slow", {}, blocks, <<>>, <<>>, <<>>)

\* time one oracle invocation takes: the race rejects at maxAnalysisTimeMs,
\* the loop over response.text runs after the race and is not timed
invocationTime(r) ==
  CASE r.outcome = "timeout" -> maxAnalysisTimeMs
    [] r.outcome = "slow" -> maxAnalysisTimeMs + 1
    [] OTHER -> 0

\* lower-cased indicator strings that a modelled phrase contains
LowerIncludes(phrase) ==
  CASE phrase = "Method not found" -> {"not found", "method not found"}
    [] phrase = "cannot be found" -> {"cannot be found"}
    [] phrase = "could not be found" -> {"could not be found"}
    [] phrase = "Step Into" -> {"step into"}
    [] phrase = "STEP INTO" -> {"step into"}
    [] phrase = "Object Lookup" -> {"object lookup"}
    [] phrase = "External" -> {"external"}
    [] phrase = "Yes" -> {"yes"}
    [] OTHER -> {}

TextIncludes(phrases, indicator) == \E p \in phrases : indicator \in LowerIncludes(p)

ToLower(type) ==
  CASE type = "MethodCall" -> "methodcall"
    [] type = "Assignment" -> "assignment"
    [] type = "Return" -> "return"
    [] OTHER -> type

----------------------------------------------------------------------------
(* Pure functions of the analyzer *)

\* isValidIdentifier: /^[A-Za-z_][A-Za-z0-9_]*$/ and length < 100
isValidIdentifier(identifier) == identifier \in Classes \cup Methods \cup {"Unknown"}

\* parseMethodCall: Type.method(params), bare method(params), or null
parseMethodCall(cit) ==
  CASE cit.form = "qualified" ->
         <<[className |-> cit.className, methodName |-> cit.methodName,
            parameters |-> cit.parameters]>>
    [] cit.form = "bare" ->
         <<[className |-> "Unknown", methodName |-> cit.methodName,
            parameters |-> cit.parameters]>>
    [] OTHER -> <<>>

\* mutant of the mapping: no fallback for the old Yes/No format
stepInDecisionOf_NoLegacy(classification) ==
  LET low == LowerIncludes(classification) IN
  IF "step into" \in low THEN "stepInto"
  ELSE IF "object lookup" \in low THEN "objectLookup"
  ELSE "external"

\* the mapping of a classification phrase to a StepInDecision
stepInDecisionOf(classification) ==
  LET low == LowerIncludes(classification) IN
  IF "step into" \in low THEN "stepInto"
  ELSE IF "object lookup" \in low THEN "objectLookup"
  ELSE IF "external" \in low THEN "external"
  ELSE IF "yes" \in low THEN "stepInto" ELSE "external"

\* extractMethodCallsFromBlock: unparsable citations are dropped
RECURSIVE extractMethodCallsFromBlock(_, _)
extractMethodCallsFromBlock(cits, callIndex) ==
  IF cits = <<>> THEN <<>>
  ELSE LET parsed == parseMethodCall(Head(cits)) IN
       IF parsed = <<>> THEN extractMethodCallsFromBlock(Tail(cits), callIndex)
       ELSE <<[className |-> parsed[1].className,
               methodName |-> parsed[1].methodName,
               parameters |-> parsed[1].parameters,
               stepInDecision |-> stepInDecisionOf(Head(cits).classification),
               expectedBehavior |-> <<"To be analyzed">>,
               executionOrder |-> callIndex]>>
            \o extractMethodCallsFromBlock(Tail(cits), callIndex + 1)

\* mutant of the parser's list: 'cannot be found' is not scanned for
parserIndicators_Fewer ==
  {"not found", "does not exist", "method not found",
   "[x]", "method detection result:[x]", "similar methods found:"}

\* methodNotFoundIndicators of parseLLMResponse, lower-cased
parserIndicators ==
  {"not found", "does not exist", "cannot be found", "method not found",
   "[x]", "method detection result:[x]", "similar methods found:"}

responseIndicators ==
  {"method not found", "not found in class", "[x] **method",
   "method detection result:[x]", "does not exist", "could not be found"}

\* isMethodNotFoundResponse
isMethodNotFoundResponse(resp) ==
  \E indicator \in responseIndicators : TextIncludes(resp.phrases, indicator)

\* parseLLMResponse
parseLLMResponse(resp, className, methodName) ==
  IF \E indicator \in parserIndicators : TextIncludes(resp.phrases, indicator)
  THEN [executionBlocks |-> <<>>, methodCalls |-> <<>>,
        analysisStatus |-> "error",
        errorMessage |-> <<"Method not found in class", methodName, className>>]
  ELSE LET blocks == [i \in 1..Len(resp.blocks) |->
                        [blockId |-> <<"block", i - 1>>,
                         blockType |-> ToLower(resp.blocks[i].type),
                         description |-> resp.blocks[i].description,
                         methodCalls |->
                           extractMethodCallsFromBlock(resp.blocks[i].calls, 0)]]
       IN [executionBlocks |-> blocks,
           methodCalls |-> Flatten([i \in 1..Len(blocks) |-> blocks[i].methodCalls]),
           analysisStatus |-> "complete",
           errorMessage |-> <<>>]

\* extractLLMSuggestions: Extends, then alternative classes, then Implements,
\* a class name already listed is not added again by the later two scans
RECURSIVE AddUnique(_, _)
AddUnique(acc, names) ==
  IF names = <<>> THEN acc
  ELSE AddUnique(IF Head(names) \in Range(acc) THEN acc ELSE Append(acc, Head(names)),
                 Tail(names))

\* mutant of extractLLMSuggestions: the Extends lines are not scanned
extractLLMSuggestions_NoParent(resp) ==
  AddUnique(resp.alternatives, resp.implements)

\* mutant of extractLLMSuggestions: interfaces, then alternatives, then parents
extractLLMSuggestions_InterfacesFirst(resp) ==
  AddUnique(AddUnique(resp.implements, resp.alternatives), resp.extends)

\* extractLLMSuggestions: parent classes, then alternatives, then interfaces
extractLLMSuggestions(resp) ==
  AddUnique(AddUnique(resp.extends, resp.alternatives), resp.implements)

\* mutant of buildMethodCallSummary: external is the default bucket of every
\* call that is not stepped into
buildMethodCallSummary_Default(methodCalls) ==
  [stepInto |-> SelectSeq(methodCalls, LAMBDA c : c.stepInDecision = "stepInto"),
   objectLookup |-> SelectSeq(methodCalls, LAMBDA c : c.stepInDecision = "objectLookup"),
   external |-> SelectSeq(methodCalls, LAMBDA c : c.stepInDecision # "stepInto"),
   notFound |-> SelectSeq(methodCalls, LAMBDA c : c.stepInDecision = "notFound")]

\* buildMethodCallSummary: the four buckets, each in the calls' order
buildMethodCallSummary(methodCalls) ==
  [stepInto |-> SelectSeq(methodCalls, LAMBDA c : c.stepInDecision = "stepInto"),
   objectLookup |-> SelectSeq(methodCalls, LAMBDA c : c.stepInDecision = "objectLookup"),
   external |-> SelectSeq(methodCalls, LAMBDA c : c.stepInDecision = "external"),
   notFound |-> SelectSeq(methodCalls, LAMBDA c : c.stepInDecision = "notFound")]

\* MethodAnalysis.methodCallSummary: the summary shares the MethodCall objects
\* of the blocks, so it is read off the blocks
methodCallSummary(analysis) ==
  buildMethodCallSummary(
    Flatten([i \in 1..Len(analysis.executionBlocks) |->
               analysis.executionBlocks[i].methodCalls]))

NewAnalysis(c, m, status, blocks, msg, t) ==
  [className |-> c, methodName |-> m, analysisStatus |-> status,
   executionBlocks |-> blocks, analysisTimestamp |-> t, contentHash |-> NoHash,
   errorMessage |-> msg, inheritedFrom |-> ""]

\* createPlaceholderAnalysis
createPlaceholderAnalysis(c, m, status, reason, t) ==
  NewAnalysis(c, m, status,
              <<[blockId |-> <<"placeholder", 1>>, blockType |-> "methodCall",
                 description |-> <<"Method analysis skipped", reason>>,
                 methodCalls |-> <<>>]>>,
              <<reason>>, t)

\* the errorAnalysis of analyzeMethod's catch block
errorAnalysis(c, m, msg, t) == NewAnalysis(c, m, "error", <<>>, msg, t)

\* extractExpectedBehavior
extractExpectedBehavior(analysis) ==
  LET blocks == analysis.executionBlocks
      returns == SelectSeq(blocks, LAMBDA b : b.blockType = "return")
  IN IF blocks = <<>> THEN <<"Method behavior could not be determined">>
     ELSE IF returns # <<>> THEN returns[1].description
     ELSE Flatten([i \in 1..(IF Len(blocks) < 3 THEN Len(blocks) ELSE 3) |->
                     blocks[i].description])

----------------------------------------------------------------------------
(* InMemoryMethodCache *)

defaultConfig == [maxEntries |-> maxEntries, expiryMs |-> expiryMs]

\* getCacheKey
getCacheKey(className, methodName) == <<className, methodName>>

\* mutant of isExpired: an entry whose age equals expiryMs counts as expired
isExpired_AtTtl(entry, cfg, t) == t - entry.timestamp >= cfg.expiryMs

\* isExpired
isExpired(entry, cfg, t) == t - entry.timestamp > cfg.expiryMs

\* updateHitRate: hitRate is kept as the fraction <<hitCount, total>>
updateHitRate(st) ==
  [st EXCEPT !.hitRate = IF st.hitCount + st.missCount > 0
                         THEN <<st.hitCount, st.hitCount + st.missCount>>
                         ELSE <<0, 1>>]

\* mutant of evictOldest: the first entry in Map order is evicted
evictOldest_FirstInserted(c, st, cfg) ==
  IF Len(c) < cfg.maxEntries \/ c = <<>> THEN [cache |-> c, stats |-> st]
  ELSE [cache |-> MapDelete(c, c[1].key),
        stats |-> [st EXCEPT !.evictionCount = @ + 1]]

\* evictOldest: when the cache is full, the entry with the smallest timestamp,
\* the first such in iteration order, is deleted
evictOldest(c, st, cfg) ==
  IF Len(c) < cfg.maxEntries \/ c = <<>> THEN [cache |-> c, stats |-> st]
  ELSE LET i == CHOOSE i \in 1..Len(c) :
                  /\ \A j \in 1..Len(c) : c[i].timestamp <= c[j].timestamp
                  /\ \A j \in 1..(i-1) : c[j].timestamp > c[i].timestamp
       IN [cache |-> MapDelete(c, c[i].key),
           stats |-> [st EXCEPT !.evictionCount = @ + 1]]

\* mutant of get: an expired entry is returned like a fresh one
CacheGet_ReturnsExpired(c, st, className, methodName, cfg, t) ==
  LET key == getCacheKey(className, methodName)
      i == IndexOfKey(c, key)
  IN IF i = 0
     THEN [cache |-> c, entry |-> <<>>,
           stats |-> updateHitRate([st EXCEPT !.missCount = @ + 1])]
     ELSE [cache |-> [c EXCEPT ![i].accessCount = @ + 1],
           entry |-> <<[c[i] EXCEPT !.accessCount = @ + 1]>>,
           stats |-> updateHitRate([st EXCEPT !.hitCount = @ + 1])]

\* get: a missing or expired entry is a miss, an expired one is deleted
CacheGet(c, st, className, methodName, cfg, t) ==
  LET key == getCacheKey(className, methodName)
      i == IndexOfKey(c, key)
  IN IF i = 0
     THEN [cache |-> c, entry |-> <<>>,
           stats |-> updateHitRate([st EXCEPT !.missCount = @ + 1])]
     ELSE IF isExpired(c[i], cfg, t)
     THEN [cache |-> MapDelete(c, key), entry |-> <<>>,
           stats |-> updateHitRate([st EXCEPT !.missCount = @ + 1])]
     ELSE [cache |-> [c EXCEPT ![i].accessCount = @ + 1],
           entry |-> <<[c[i] EXCEPT !.accessCount = @ + 1]>>,
           stats |-> updateHitRate([st EXCEPT !.hitCount = @ + 1])]

\* set
CacheSet(c, st, className, methodName, id, contentHash, cfg, t) ==
  LET key == getCacheKey(className, methodName)
      ev == evictOldest(c, st, cfg)
      c2 == MapSet(ev.cache, [key |-> key, analysis |-> id, timestamp |-> t,
                              accessCount |-> 0, contentHash |-> contentHash])
  IN [cache |-> c2, stats |-> [ev.stats EXCEPT !.totalEntries = Len(c2)]]

\* clear
emptyStats == [totalEntries |-> 0, hitRate |-> <<0, 1>>, missCount |-> 0,
               hitCount |-> 0, evictionCount |-> 0]

----------------------------------------------------------------------------
(* PersistentAnalysisCache *)

\* cleanupCache: entries past the retention window go, then the oldest
\* entries beyond MAX_CACHE_ENTRIES
RECURSIVE DropOldest(_, _)
DropOldest(p, n) ==
  IF n = 0 \/ p = <<>> THEN p
  ELSE LET i == CHOOSE i \in 1..Len(p) :
                  /\ \A j \in 1..Len(p) : p[i].timestamp <= p[j].timestamp
                  /\ \A j \in 1..(i-1) : p[j].timestamp > p[i].timestamp
       IN DropOldest(MapDelete(p, p[i].key), n - 1)

\* mutant of cleanupCache: one entry more than MAX_CACHE_ENTRIES is tolerated
cleanupCache_OneMore(p, t) ==
  LET fresh == SelectSeq(p, LAMBDA e : ~(t - e.timestamp > MAX_CACHE_AGE_MS))
  IN IF Len(fresh) > MAX_CACHE_ENTRIES + 1
     THEN DropOldest(fresh, Len(fresh) - MAX_CACHE_ENTRIES - 1)
     ELSE fresh

cleanupCache(p, t) ==
  LET fresh == SelectSeq(p, LAMBDA e : ~(t - e.timestamp > MAX_CACHE_AGE_MS))
  IN IF Len(fresh) > MAX_CACHE_ENTRIES
     THEN DropOldest(fresh, Len(fresh) - MAX_CACHE_ENTRIES)
     ELSE fresh

\* mutant of PersistentAnalysisCache.get: a mismatching entry is kept
PersistentGet_Keeps(p, className, methodName, fileContent, modelName, t) ==
  LET key == getCacheKey(className, methodName)
      i == IndexOfKey(p, key)
  IN IF i = 0 THEN [entries |-> p, analysis |-> <<>>]
     ELSE IF \/ p[i].contentHash # calculateContentHash(fileContent)
             \/ p[i].modelName # modelName
             \/ t - p[i].timestamp > MAX_CACHE_AGE_MS
     THEN [entries |-> p, analysis |-> <<>>]
     ELSE [entries |-> p, analysis |-> <<p[i].analysis>>]

\* PersistentAnalysisCache.get
PersistentGet(p, className, methodName, fileContent, modelName, t) ==
  LET key == getCacheKey(className, methodName)
      i == IndexOfKey(p, key)
  IN IF i = 0 THEN [entries |-> p, analysis |-> <<>>]
     ELSE IF p[i].contentHash # calculateContentHash(fileContent)
     THEN [entries |-> MapDelete(p, key), analysis |-> <<>>]
     ELSE IF p[i].modelName # modelName
     THEN [entries |-> MapDelete(p, key), analysis |-> <<>>]
     ELSE IF t - p[i].timestamp > MAX_CACHE_AGE_MS
     THEN [entries |-> MapDelete(p, key), analysis |-> <<>>]
     ELSE [entries |-> p, analysis |-> <<p[i].analysis>>]

\* PersistentAnalysisCache.set
PersistentSet(p, className, methodName, id, fileContent, modelName, t) ==
  cleanupCache(MapSet(p, [key |-> getCacheKey(className, methodName),
                          analysis |-> id,
                          contentHash |-> calculateContentHash(fileContent),
                          modelName |-> modelName, timestamp |-> t]), t)

\* the cache file on disk, as loadCache finds it: absent, unreadable, not
\* JSON, or a JSON value; a JSON object lists its entries, each an object
\* whose shape says which fields of PersistentCacheEntry it has
CACHE_VERSION == "1.0.0"
FileMissing == [kind |-> "missing"]
FileUnreadable == [kind |-> "unreadable"]
FileNotJson == [kind |-> "not json"]
FileJsonNull == [kind |-> "json", shape |-> "null"]
FileJson(version, entries) ==
  [kind |-> "json", shape |-> "object", version |-> version, entries |-> entries]
FileEntry(shape, c, id, t) ==
  [shape |-> shape, key |-> getCacheKey(c, "f"), analysis |-> id,
   contentHash |-> calculateContentHash(FileContent(c, 0)),
   modelName |-> "M1", timestamp |-> t]

\* PersistentAnalysisCache.loadCache: everything inside one try; the entries
\* of the file are stored as they are, and cleanupCache then reads
\* entry.metadata.timestamp of each, which throws on an entry that is null or
\* has no metadata; the catch clears the map
loadCache(file, t) ==
  IF file.kind = "missing" THEN [threw |-> FALSE, entries |-> <<>>]
  ELSE IF file.kind \in {"unreadable", "not json"}
  THEN [threw |-> FALSE, entries |-> <<>>]
  ELSE IF file.shape = "null" THEN [threw |-> FALSE, entries |-> <<>>]
  ELSE IF file.version # CACHE_VERSION THEN [threw |-> FALSE, entries |-> <<>>]
  ELSE LET stored == [i \in 1..Len(file.entries) |->
                        [key |-> file.entries[i].key,
                         analysis |-> file.entries[i].analysis,
                         contentHash |-> file.entries[i].contentHash,
                         modelName |-> file.entries[i].modelName,
                         timestamp |-> file.entries[i].timestamp]]
       IN IF \E i \in 1..Len(file.entries) :
               file.entries[i].shape \in {"null", "no metadata"}
          THEN [threw |-> FALSE, entries |-> <<>>]
          ELSE [threw |-> FALSE, entries |-> cleanupCache(stored, t)]

\* PersistentAnalysisCache.saveCache: the write is inside a try whose catch
\* logs, and set attaches a catch to the promise as well
saveCache(file, entries, writable) ==
  [threw |-> FALSE,
   file |-> IF writable
            THEN FileJson(CACHE_VERSION,
                          [i \in 1..Len(entries) |->
                             [shape |-> "entry", key |-> entries[i].key,
                              analysis |-> entries[i].analysis,
                              contentHash |-> entries[i].contentHash,
                              modelName |-> entries[i].modelName,
                              timestamp |-> entries[i].timestamp]])
            ELSE file]

----------------------------------------------------------------------------
(* Control stack of the asynchronous calls *)

Frame(fn, pc, c, m, depth) ==
  [fn |-> fn, pc |-> pc, className |-> c, methodName |-> m, depth |-> depth,
   obj |-> 0, idx |-> 0, list |-> <<>>, text |-> <<>>, t0 |-> 0, model |-> "none"]

Top == stack[Len(stack)]
NoRet == [kind |-> "none", obj |-> 0, msg |-> <<>>]
Value(id) == [kind |-> "value", obj |-> id, msg |-> <<>>]
Throw(msg) == [kind |-> "throw", obj |-> 0, msg |-> msg]

Running(fn, pc) == stack # <<>> /\ Top.fn = fn /\ Top.pc = pc
Idle == stack = <<>>

\* the callee returns v to the frame below
Return(v) == stack' = Front(stack) /\ ret' = v
\* the running frame moves on
Goto(f) == stack' = [stack EXCEPT ![Len(stack)] = f]
\* the running frame calls g and will resume as f
Call(f, g) == stack' = Append([stack EXCEPT ![Len(stack)] = f], g)

NoSession ==
  [active |-> FALSE,
   config |-> [maxCallStackDepth |-> maxCallStackDepth,
               maxTotalMethods |-> maxTotalMethods],
   callStack |-> <<>>, analyzedMethods |-> {}, totalMethodsAnalyzed |-> 0,
   isComplete |-> FALSE, rootMethod |-> <<"", "">>]

NoFlow == [active |-> FALSE, steps |-> <<>>, methodReferences |-> <<>>,
           totalSteps |-> 0, rootMethod |-> <<"", "">>]

NoResult == [call |-> "none", status |-> "none", errorMessage |-> <<>>,
             analysis |-> 0, output |-> <<>>]

InitHist ==
  [oracleCalls |-> [k \in Keys |-> 0],  \* oracle requests per key in this top-level call
   lastRet |-> [k \in CallKeys |-> 0],  \* object last returned by analyzeMethod per key
   lastContent |-> [k \in CallKeys |-> 0],   \* source version at that return
   lastModel |-> [k \in CallKeys |-> "none"], \* selected model at that return
   producer |-> {},                     \* <<object, model>> for oracle-made objects
   hit |-> FALSE,                       \* the last analyzeMethod step was a cache hit
   topCalls |-> 0, events |-> 0,
   cancelled |-> <<>>,                  \* oracleCalls when cancellation was requested
   exceeded |-> {},                     \* keys whose oracle invocation reached maxAnalysisTimeMs
   second |-> <<>>,                     \* root of a second session started meanwhile
   enableCaching |-> TRUE,              \* config.enableCaching of the top-level call
   entered |-> <<>>]                    \* calls of analyzeMethodRecursively, in order

----------------------------------------------------------------------------
(* CodeFlowAnalyzer.analyzeMethod *)

NoteReturn(h, c, m, id, wasHit) ==
  [h EXCEPT !.lastRet[<<c, m>>] = id, !.hit = wasHit,
            !.lastContent[<<c, m>>] = IF c \in Classes THEN content[c] ELSE 0,
            !.lastModel[<<c, m>>] = selectedModel]

\* analyzeMethod up to the call of performMethodAnalysis: in-memory lookup,
\* getFileInfo, persistent lookup
AmStart ==
  /\ Running("am", "start")
  /\ LET f == Top
         c == f.className
         m == f.methodName
         g == CacheGet(cache, stats, c, m, defaultConfig, now)
         id == Len(heap) + 1
     IN IF g.entry # <<>>
        THEN /\ cache' = g.cache /\ stats' = g.stats
             /\ Return(Value(g.entry[1].analysis))
             /\ hist' = NoteReturn(hist, c, m, g.entry[1].analysis, TRUE)
             /\ UNCHANGED <<pentries, heap>>
        ELSE IF c \notin world.files
        THEN \* getFileInfo throws, the catch block caches an error analysis
             LET s == CacheSet(g.cache, g.stats, c, m, id, NoHash, defaultConfig, now)
             IN /\ heap' = Append(heap, errorAnalysis(c, m,
                                   <<"Class not found in workspace", c>>, now))
                /\ cache' = s.cache /\ stats' = s.stats
                /\ Return(Value(id))
                /\ hist' = NoteReturn(hist, c, m, id, FALSE)
                /\ UNCHANGED pentries
        ELSE LET text == FileContent(c, content[c])
                 pg == IF world.workspace /\ selectedModel # "none"
                       THEN PersistentGet(pentries, c, m, text, selectedModel, now)
                       ELSE [entries |-> pentries, analysis |-> <<>>]
             IN IF pg.analysis # <<>>
                THEN LET pid == pg.analysis[1]
                         s == CacheSet(g.cache, g.stats, c, m, pid,
                                       heap[pid].contentHash, defaultConfig, now)
                     IN /\ cache' = s.cache /\ stats' = s.stats
                        /\ pentries' = pg.entries
                        /\ Return(Value(pid))
                        /\ hist' = NoteReturn(hist, c, m, pid, FALSE)
                        /\ UNCHANGED heap
                ELSE /\ cache' = g.cache /\ stats' = g.stats
                     /\ pentries' = pg.entries
                     /\ Call([f EXCEPT !.pc = "performed", !.text = text, !.t0 = now],
                             [Frame("pma", "send", c, m, 0) EXCEPT !.text = text])
                     /\ ret' = NoRet
                     /\ hist' = [hist EXCEPT !.hit = FALSE]
                     /\ UNCHANGED heap
  /\ UNCHANGED <<world, content, now, selectedModel, linearFlow, session, result>>
  /\ UNCHANGED <<input, output>>

\* analyzeMethod after performMethodAnalysis: the result, or the error analysis
\* of the catch block, is cached and returned
AmFinish ==
  /\ Running("am", "performed")
  /\ ret.kind # "none"
  /\ LET f == Top
         c == f.className
         m == f.methodName
     IN IF ret.kind = "throw"
        THEN LET id == Len(heap) + 1
                 s == CacheSet(cache, stats, c, m, id, NoHash, defaultConfig, now)
             IN /\ heap' = Append(heap, errorAnalysis(c, m, ret.msg, f.t0))
                /\ cache' = s.cache /\ stats' = s.stats
                /\ Return(Value(id))
                /\ hist' = NoteReturn(hist, c, m, id, FALSE)
                /\ UNCHANGED pentries
        ELSE LET id == ret.obj
                 hash == generateContentHash(f.text)
                 s == CacheSet(cache, stats, c, m, id, hash, defaultConfig, now)
             IN /\ heap' = [heap EXCEPT ![id].contentHash = hash,
                                        ![id].analysisTimestamp = f.t0]
                /\ cache' = s.cache /\ stats' = s.stats
                /\ pentries' =
                     IF /\ world.workspace /\ selectedModel # "none"
                        /\ heap[id].analysisStatus = "complete"
                     THEN PersistentSet(pentries, c, m, id, f.text, selectedModel, now)
                     ELSE pentries
                /\ Return(Value(id))
                /\ hist' = NoteReturn(hist, c, m, id, FALSE)
  /\ UNCHANGED <<world, content, now, selectedModel, linearFlow, session, result>>
  /\ UNCHANGED <<input, output>>

----------------------------------------------------------------------------
(* CodeFlowAnalyzer.performMethodAnalysis and followLLMSuggestions *)

\* the MethodAnalysis that performMethodAnalysis builds from a parsed response
parsedAnalysis(resp, c, m, t) ==
  LET parsed == parseLLMResponse(resp, c, m)
  IN NewAnalysis(c, m, parsed.analysisStatus, parsed.executionBlocks,
                 parsed.errorMessage, t)

\* selectLanguageModel and the request to the oracle, then the parse; a
\* not-found response with suggestions continues in followLLMSuggestions
PmaSend ==
  /\ Running("pma", "send")
  /\ LET f == Top
         c == f.className
         m == f.methodName
         r == world.resp[<<c, m>>]
         id == Len(heap) + 1
     IN IF selectedModel = "none" /\ world.models = {}
        THEN /\ Return(Throw(<<"No GitHub Copilot models available">>))
             /\ UNCHANGED <<selectedModel, heap, hist, now>>
        ELSE \E model \in (IF selectedModel # "none" THEN {selectedModel}
                           ELSE world.models) :
               /\ selectedModel' = model
               /\ now' = now + invocationTime(r)
               /\ IF r.outcome = "error"
                  THEN /\ Return(Throw(<<"Request failed">>))
                       /\ hist' = [hist EXCEPT !.oracleCalls[<<c, m>>] = @ + 1]
                       /\ UNCHANGED heap
                  ELSE IF r.outcome = "timeout"
                  THEN /\ Return(Throw(<<"Analysis timeout">>))
                       /\ hist' = [hist EXCEPT !.oracleCalls[<<c, m>>] = @ + 1,
                                               !.exceeded = @ \cup {<<c, m>>}]
                       /\ UNCHANGED heap
                  ELSE IF /\ parseLLMResponse(r, c, m).analysisStatus = "error"
                          /\ isMethodNotFoundResponse(r)
                          /\ extractLLMSuggestions(r) # <<>>
                  THEN /\ Goto([f EXCEPT !.pc = "suggest", !.idx = 1, !.model = model,
                                         !.list = extractLLMSuggestions(r)])
                       /\ ret' = NoRet
                       /\ hist' = [hist EXCEPT !.oracleCalls[<<c, m>>] = @ + 1]
                       /\ UNCHANGED heap
                  ELSE /\ heap' = Append(heap, parsedAnalysis(r, c, m, now))
                       /\ Return(Value(id))
                       /\ hist' = [hist EXCEPT !.oracleCalls[<<c, m>>] = @ + 1,
                                               !.producer = @ \cup {<<id, model>>},
                                               !.exceeded =
                                                 IF invocationTime(r) > maxAnalysisTimeMs
                                                 THEN @ \cup {<<c, m>>} ELSE @]
  /\ UNCHANGED <<world, content, cache, stats, pentries, linearFlow,
                 session, result>>
  /\ UNCHANGED <<input, output>>

\* followLLMSuggestions, one turn of the loop: getFileInfo of the suggested
\* class and the nested performMethodAnalysis; after the last suggestion
\* performMethodAnalysis returns the not-found analysis itself
PmaSuggest ==
  /\ Running("pma", "suggest")
  /\ LET f == Top
         c == f.className
         m == f.methodName
         id == Len(heap) + 1
     IN IF f.idx > Len(f.list)
        THEN /\ heap' = Append(heap, parsedAnalysis(world.resp[<<c, m>>], c, m, now))
             /\ Return(Value(id))
             /\ hist' = [hist EXCEPT !.producer = @ \cup {<<id, f.model>>}]
        ELSE IF f.list[f.idx] \notin world.files
        THEN /\ Goto([f EXCEPT !.idx = @ + 1])
             /\ ret' = NoRet
             /\ UNCHANGED <<heap, hist>>
        ELSE /\ f.depth < MaxSuggestionDepth
             /\ Call([f EXCEPT !.pc = "suggested"],
                     [Frame("pma", "send", f.list[f.idx], m, f.depth + 1)
                        EXCEPT !.text = FileContent(f.list[f.idx],
                                                    content[f.list[f.idx]])])
             /\ ret' = NoRet
             /\ UNCHANGED <<heap, hist>>
  /\ UNCHANGED <<world, content, now, cache, stats, pentries, selectedModel,
                 linearFlow, session, result>>
  /\ UNCHANGED <<input, output>>

\* followLLMSuggestions after the nested performMethodAnalysis: a complete
\* analysis is re-attributed and returned, anything else tries the next one
PmaSuggested ==
  /\ Running("pma", "suggested")
  /\ ret.kind # "none"
  /\ LET f == Top
     IN IF ret.kind = "value" /\ heap[ret.obj].analysisStatus = "complete"
        THEN /\ heap' = [heap EXCEPT ![ret.obj].className = f.list[f.idx],
                                     ![ret.obj].inheritedFrom = f.className]
             /\ Return(Value(ret.obj))
        ELSE /\ Goto([f EXCEPT !.pc = "suggest", !.idx = @ + 1])
             /\ ret' = NoRet
             /\ UNCHANGED heap
  /\ UNCHANGED <<world, content, now, cache, stats, pentries, selectedModel,
                 linearFlow, session, result, hist>>
  /\ UNCHANGED <<input, output>>

----------------------------------------------------------------------------
(* LinearExecutionFlow *)

flowKey(analysis) == <<analysis.className, analysis.methodName>>

RefsHas(refs, key) == IndexOfKey(refs, key) # 0
RefsGet(refs, key) == refs[IndexOfKey(refs, key)].analysis

\* initializeLinearFlow
initializeLinearFlow(c, m) ==
  [active |-> TRUE, steps |-> <<>>, methodReferences |-> <<>>, totalSteps |-> 0,
   rootMethod |-> <<c, m>>]

callStepDescription(call) ==
  IF call.stepInDecision = "stepInto"
  THEN <<"Call", call.className, call.methodName>>
  ELSE IF call.stepInDecision = "objectLookup"
  THEN <<"Data access", call.className, call.methodName>>
  ELSE <<"External call", call.className, call.methodName>>

\* the steps of one block: the execution step, then one methodCall step per call
blockSteps(block) ==
  <<[stepType |-> "execution", description |-> block.description]>>
  \o [i \in 1..Len(block.methodCalls) |->
        [stepType |-> "methodCall",
         description |-> callStepDescription(block.methodCalls[i])]]

\* steps pushed with ++currentStepNumber, starting from totalSteps
numberSteps(raw, first, depth, key) ==
  [i \in 1..Len(raw) |->
     [stepNumber |-> first + i, depth |-> depth, sourceMethod |-> key,
      stepType |-> raw[i].stepType, description |-> raw[i].description]]

\* addMethodToLinearFlow
addMethodToLinearFlow(flow, id, analysis, depth) ==
  LET key == flowKey(analysis)
      raw == <<[stepType |-> "methodStart", description |-> <<"starts">>]>>
             \o Flatten([i \in 1..Len(analysis.executionBlocks) |->
                           blockSteps(analysis.executionBlocks[i])])
             \o <<[stepType |-> "methodEnd", description |-> <<"completes">>]>>
  IN IF ~flow.active \/ RefsHas(flow.methodReferences, key) THEN flow
     ELSE [flow EXCEPT
             !.methodReferences = MapSet(@, [key |-> key, analysis |-> id]),
             !.steps = @ \o numberSteps(raw, flow.totalSteps, depth, key),
             !.totalSteps = @ + Len(raw)]

\* mutant of addReturnStep: the pushed step is not counted in totalSteps
addReturnStep_Uncounted(flow, analysis, call, depth) ==
  [flow EXCEPT
     !.steps = Append(@, [stepNumber |-> flow.totalSteps + 1, depth |-> depth,
                          sourceMethod |-> flowKey(analysis),
                          stepType |-> "methodReturn",
                          description |-> <<"returns", call.className,
                                            call.methodName>>])]

\* the methodReturn step of processMethodCallsRecursively
addReturnStep(flow, analysis, call, depth) ==
  [flow EXCEPT
     !.steps = Append(@, [stepNumber |-> flow.totalSteps + 1, depth |-> depth,
                          sourceMethod |-> flowKey(analysis),
                          stepType |-> "methodReturn",
                          description |-> <<"returns", call.className,
                                            call.methodName>>]),
     !.totalSteps = @ + 1]

\* integrateInnerAnalysis, flow part: the inner analysis is stored under its key
integrateFlow(flow, inner, innerId) ==
  IF flow.active
  THEN [flow EXCEPT !.methodReferences =
                       MapSet(@, [key |-> flowKey(inner), analysis |-> innerId])]
  ELSE flow

\* integrateInnerAnalysis, block part: in the first block that holds a call to
\* the same class and method, the first such call gets the expected behaviour
integrateBlocks(blocks, call, behavior) ==
  LET holds(b) == \E j \in 1..Len(b.methodCalls) :
                    /\ b.methodCalls[j].className = call.className
                    /\ b.methodCalls[j].methodName = call.methodName
      hit == {i \in 1..Len(blocks) : holds(blocks[i])}
  IN IF hit = {} THEN blocks
     ELSE LET i == CHOOSE i \in hit : \A k \in hit : i <= k
              j == CHOOSE j \in 1..Len(blocks[i].methodCalls) :
                     /\ blocks[i].methodCalls[j].className = call.className
                     /\ blocks[i].methodCalls[j].methodName = call.methodName
                     /\ \A k \in 1..(j-1) :
                          \/ blocks[i].methodCalls[k].className # call.className
                          \/ blocks[i].methodCalls[k].methodName # call.methodName
          IN [blocks EXCEPT ![i].methodCalls[j].expectedBehavior = behavior]

----------------------------------------------------------------------------
(* CodeFlowAnalyzer.analyzeMethodRecursively and processMethodCallsRecursively *)

\* mutant of depthLimitReached: the limit is cut one level later
depthLimitReached_Late(depth, config) == depth > config.maxCallStackDepth

\* depth >= session.config.maxCallStackDepth
depthLimitReached(depth, config) == depth >= config.maxCallStackDepth

\* mutant of alreadyAnalyzed: no key counts as analysed before
alreadyAnalyzed_Never(methodKey, s) == FALSE

\* session.analyzedMethods.has(methodKey)
alreadyAnalyzed(methodKey, s) == methodKey \in s.analyzedMethods

\* mutant of budgetReached: the budget is cut one method later
budgetReached_Late(s) == s.totalMethodsAnalyzed > s.config.maxTotalMethods

\* session.totalMethodsAnalyzed >= session.config.maxTotalMethods
budgetReached(s) == s.totalMethodsAnalyzed >= s.config.maxTotalMethods

\* the guards of analyzeMethodRecursively: depth limit, cycle, budget, invalid
\* identifiers; otherwise the method is marked, a frame is pushed and
\* analyzeMethod is called
RecEnter ==
  /\ Running("rec", "enter")
  /\ LET f == Top
         c == f.className
         m == f.methodName
         methodKey == <<c, m>>
         id == Len(heap) + 1
         placeholder(status, reason) ==
           /\ heap' = Append(heap, createPlaceholderAnalysis(c, m, status, reason, now))
           /\ Return(Value(id))
           /\ UNCHANGED <<cache, stats, session>>
     IN IF depthLimitReached(f.depth, session.config)
        THEN placeholder("partial", "Maximum recursion depth reached")
        ELSE IF alreadyAnalyzed(methodKey, session)
        THEN LET g == CacheGet(cache, stats, c, m, defaultConfig, now)
             IN /\ cache' = g.cache /\ stats' = g.stats
                /\ IF g.entry # <<>>
                   THEN /\ Return(Value(g.entry[1].analysis))
                        /\ UNCHANGED heap
                   ELSE /\ heap' = Append(heap, createPlaceholderAnalysis(c, m,
                                      "partial", "Circular dependency detected", now))
                        /\ Return(Value(id))
                /\ UNCHANGED session
        ELSE IF budgetReached(session)
        THEN placeholder("partial", "Maximum method count reached")
        ELSE IF ~isValidIdentifier(c) \/ ~isValidIdentifier(m)
        THEN placeholder("error", "Invalid class or method name")
        ELSE /\ session' = [session EXCEPT
                              !.analyzedMethods = @ \cup {methodKey},
                              !.totalMethodsAnalyzed = @ + 1,
                              !.callStack = Append(@, [className |-> c,
                                              methodName |-> m, depth |-> f.depth])]
             /\ Call([f EXCEPT !.pc = "analyzed"], Frame("am", "start", c, m, f.depth))
             /\ ret' = NoRet
             /\ UNCHANGED <<heap, cache, stats>>
  /\ hist' = [hist EXCEPT !.entered =
                          Append(@, [key |-> <<Top.className, Top.methodName>>,
                                     depth |-> Top.depth])]
  /\ UNCHANGED <<world, content, now, pentries, selectedModel, linearFlow,
                 result>>
  /\ UNCHANGED <<input, output>>

\* analyzeMethodRecursively after analyzeMethod: root re-attribution, the
\* method's steps, then on to its step-into calls
RecAnalyzed ==
  /\ Running("rec", "analyzed")
  /\ ret.kind # "none"
  /\ LET f == Top
         id == Len(heap) + 1
     IN IF ret.kind = "throw"
        THEN \* catch block, then finally
             /\ heap' = Append(heap, createPlaceholderAnalysis(f.className,
                                       f.methodName, "error", "Unknown error", now))
             /\ session' = [session EXCEPT !.callStack = Front(@)]
             /\ Return(Value(id))
             /\ UNCHANGED linearFlow
        ELSE LET analysis == heap[ret.obj]
                 rooted == IF /\ f.depth = 0 /\ linearFlow.active
                              /\ analysis.inheritedFrom # ""
                           THEN [linearFlow EXCEPT !.rootMethod = flowKey(analysis)]
                           ELSE linearFlow
             IN /\ linearFlow' = IF analysis.analysisStatus = "complete"
                                 THEN addMethodToLinearFlow(rooted, ret.obj, analysis,
                                                            f.depth)
                                 ELSE rooted
                /\ Goto([f EXCEPT !.pc = "calls", !.obj = ret.obj, !.idx = 1])
                /\ ret' = NoRet
                /\ UNCHANGED <<heap, session>>
  /\ UNCHANGED <<world, content, now, cache, stats, pentries, selectedModel,
                 result, hist>>
  /\ UNCHANGED <<input, output>>

\* mutant of the loop's list: the step-into calls are taken last first
stepIntoMethods_Reversed(analysis) ==
  IF analysis.analysisStatus = "complete"
  THEN LET calls == methodCallSummary(analysis).stepInto
       IN [i \in 1..Len(calls) |-> calls[Len(calls) + 1 - i]]
  ELSE <<>>

\* the step-into calls still to expand: none unless the analysis is complete
stepIntoMethods(analysis) ==
  IF analysis.analysisStatus = "complete"
  THEN methodCallSummary(analysis).stepInto ELSE <<>>

\* mutant of RecCalls: the frame stays on session.callStack when the call returns
RecCalls_NoPop ==
  /\ Running("rec", "calls")
  /\ LET f == Top
         calls == stepIntoMethods(heap[f.obj])
     IN IF f.idx > Len(calls)
        THEN /\ UNCHANGED session
             /\ Return(Value(f.obj))
        ELSE /\ Call([f EXCEPT !.pc = "inner"],
                     Frame("rec", "enter", calls[f.idx].className,
                           calls[f.idx].methodName, f.depth + 1))
             /\ ret' = NoRet
             /\ UNCHANGED session
  /\ UNCHANGED <<world, content, now, cache, stats, pentries, selectedModel,
                 heap, linearFlow, result, hist>>
  /\ UNCHANGED <<input, output>>

\* the loop of processMethodCallsRecursively: the next step-into call is
\* analysed at depth + 1; after the last one the frame is popped (finally)
\* and the analysis returned
RecCalls ==
  /\ Running("rec", "calls")
  /\ LET f == Top
         calls == stepIntoMethods(heap[f.obj])
     IN IF f.idx > Len(calls)
        THEN /\ session' = [session EXCEPT !.callStack = Front(@)]
             /\ Return(Value(f.obj))
        ELSE /\ Call([f EXCEPT !.pc = "inner"],
                     Frame("rec", "enter", calls[f.idx].className,
                           calls[f.idx].methodName, f.depth + 1))
             /\ ret' = NoRet
             /\ UNCHANGED session
  /\ UNCHANGED <<world, content, now, cache, stats, pentries, selectedModel,
                 heap, linearFlow, result, hist>>
  /\ UNCHANGED <<input, output>>

\* processMethodCallsRecursively after an inner call: the methodReturn step
\* and integrateInnerAnalysis
RecInner ==
  /\ Running("rec", "inner")
  /\ ret.kind # "none"
  /\ LET f == Top
         call == stepIntoMethods(heap[f.obj])[f.idx]
         thrown == ret.kind = "throw"
         innerId == IF thrown THEN Len(heap) + 1 ELSE ret.obj
         h1 == IF thrown
               THEN Append(heap, createPlaceholderAnalysis(call.className,
                                   call.methodName, "error", "Unknown error", now))
               ELSE heap
         inner == h1[innerId]
         stepped == IF /\ ~thrown /\ linearFlow.active
                       /\ inner.analysisStatus = "complete"
                    THEN addReturnStep(linearFlow, heap[f.obj], call, f.depth)
                    ELSE linearFlow
     IN /\ linearFlow' = integrateFlow(stepped, inner, innerId)
        /\ heap' = [h1 EXCEPT ![f.obj].executionBlocks =
                      integrateBlocks(@, call, extractExpectedBehavior(inner))]
        /\ Goto([f EXCEPT !.pc = "calls", !.idx = @ + 1])
        /\ ret' = NoRet
  /\ UNCHANGED <<world, content, now, cache, stats, pentries, selectedModel,
                 session, result, hist>>
  /\ UNCHANGED <<input, output>>

----------------------------------------------------------------------------
(* The walkthrough: generateLinearExecutionText *)

Line(depth, kind, c, m) == [depth |-> depth, kind |-> kind, className |-> c,
                            methodName |-> m]

\* the lines printed for an inner analysis that is not complete
incompleteLines(inner, depth) ==
  <<Line(depth + 1, "starts", inner.className, inner.methodName)>>
  \o (IF inner.executionBlocks # <<>>
      THEN [i \in 1..Len(inner.executionBlocks) |->
              Line(depth + 1, "block", inner.className, inner.methodName)]
      ELSE <<Line(depth + 1, inner.analysisStatus, inner.className,
                  inner.methodName)>>)
  \o <<Line(depth + 1, "completes", inner.className, inner.methodName)>>

\* generateMethodExecutionRecursively; fuel is the number of nested
\* invocations the runtime stack still has room for, ok = FALSE when the
\* recursion runs out of it (RangeError)
RECURSIVE generateMethodExecutionRecursively(_, _, _, _, _)
RECURSIVE generateCalls(_, _, _, _, _)
RECURSIVE generateBlocks(_, _, _, _, _)

generateCalls(h, refs, calls, depth, fuel) ==
  IF calls = <<>> THEN [ok |-> TRUE, lines |-> <<>>]
  ELSE LET call == Head(calls)
           key == <<call.className, call.methodName>>
           first ==
             IF call.stepInDecision = "stepInto"
             THEN IF RefsHas(refs, key)
                  THEN LET innerId == RefsGet(refs, key)
                           inner == h[innerId]
                       IN IF inner.analysisStatus = "complete"
                          THEN LET sub == generateMethodExecutionRecursively(
                                            h, refs, innerId, depth + 1, fuel - 1)
                               IN [ok |-> sub.ok,
                                   lines |-> <<Line(depth, "call", key[1], key[2])>>
                                             \o sub.lines
                                             \o <<Line(depth, "returns", key[1], key[2])>>]
                          ELSE [ok |-> TRUE,
                                lines |-> <<Line(depth, "call", key[1], key[2])>>
                                          \o incompleteLines(inner, depth)
                                          \o <<Line(depth, "returns", key[1], key[2])>>]
                  ELSE [ok |-> TRUE,
                        lines |-> <<Line(depth, "call", key[1], key[2]),
                                    Line(depth, "not available", key[1], key[2])>>]
             ELSE IF call.stepInDecision = "objectLookup"
             THEN [ok |-> TRUE, lines |-> <<Line(depth, "data access", key[1], key[2])>>]
             ELSE [ok |-> TRUE, lines |-> <<Line(depth, "external", key[1], key[2])>>]
       IN IF ~first.ok THEN [ok |-> FALSE, lines |-> <<>>]
          ELSE LET rest == generateCalls(h, refs, Tail(calls), depth, fuel)
               IN [ok |-> rest.ok, lines |-> first.lines \o rest.lines]

generateBlocks(h, refs, blocks, depth, fuel) ==
  IF blocks = <<>> THEN [ok |-> TRUE, lines |-> <<>>]
  ELSE LET first == generateCalls(h, refs, Head(blocks).methodCalls, depth, fuel)
       IN IF ~first.ok THEN [ok |-> FALSE, lines |-> <<>>]
          ELSE LET rest == generateBlocks(h, refs, Tail(blocks), depth, fuel)
               IN [ok |-> rest.ok,
                   lines |-> <<Line(depth, "block", "", "")>> \o first.lines
                             \o rest.lines]

generateMethodExecutionRecursively(h, refs, id, depth, fuel) ==
  IF fuel = 0 THEN [ok |-> FALSE, lines |-> <<>>]
  ELSE LET body == generateBlocks(h, refs, h[id].executionBlocks, depth, fuel)
       IN [ok |-> body.ok,
           lines |-> <<Line(depth, "starts", h[id].className, h[id].methodName)>>
                     \o body.lines
                     \o <<Line(depth, "completes", h[id].className,
                               h[id].methodName)>>]

\* generateLinearExecutionText: the walkthrough starts at the flow's root
\* method; the alternative root (a key containing '.processExecutorRequest')
\* matches no method of the modelled code base
generateLinearExecutionText(h, flow) ==
  IF ~flow.active THEN [ok |-> TRUE, lines |-> <<>>]
  ELSE IF RefsHas(flow.methodReferences, flow.rootMethod)
  THEN generateMethodExecutionRecursively(h, flow.methodReferences,
         RefsGet(flow.methodReferences, flow.rootMethod), 0, StackLimit)
  ELSE [ok |-> TRUE,
        lines |-> <<Line(0, "root not found", flow.rootMethod[1], flow.rootMethod[2])>>]

----------------------------------------------------------------------------
(* Top-level calls: analyzeMethodFlow and a direct analyzeMethod *)

Configs == [maxCallStackDepth : {0, 1, 2, 3, maxCallStackDepth},
            maxTotalMethods : {1, 2, 3, maxTotalMethods}]
Roots == {<<"A", "f">>, <<"B", "f">>, <<"9x", "f">>}

NewTopCall(h) == [h EXCEPT !.oracleCalls = [k \in Keys |-> 0], !.hit = FALSE,
                           !.topCalls = @ + 1, !.entered = <<>>]

\* analyzeMethodFlow: createSession, then runRecursiveFlowAnalysis up to the
\* call of analyzeMethodRecursively for the root at depth 0
StartFlowWith(roots, configs) ==
  /\ Idle
  /\ hist.topCalls < MaxTopCalls
  /\ \E root \in roots, config \in configs :
       /\ session' = [NoSession EXCEPT !.active = TRUE, !.config = config,
                                       !.rootMethod = root]
       /\ linearFlow' = initializeLinearFlow(root[1], root[2])
       /\ stack' = <<Frame("flow", "root", root[1], root[2], 0),
                     Frame("rec", "enter", root[1], root[2], 0)>>
  /\ ret' = NoRet
  /\ result' = NoResult
  /\ hist' = NewTopCall(hist)
  /\ UNCHANGED <<world, content, now, cache, stats, pentries, selectedModel, heap>>
  /\ UNCHANGED <<input, output>>

\* runRecursiveFlowAnalysis after the root analysis: the walkthrough is
\* generated when the root is complete; an exception of the generation is
\* caught and reported as the session's error result
FlowDone ==
  /\ Running("flow", "root")
  /\ ret.kind # "none"
  /\ LET rootAnalysis == heap[ret.obj]
         gen == IF linearFlow.active /\ rootAnalysis.analysisStatus = "complete"
                THEN generateLinearExecutionText(heap, linearFlow)
                ELSE [ok |-> TRUE, lines |-> <<>>]
     IN IF gen.ok
        THEN /\ result' = [call |-> "flow", status |-> "complete",
                           errorMessage |-> <<>>, analysis |-> ret.obj,
                           output |-> gen.lines]
             /\ session' = [session EXCEPT !.isComplete = TRUE, !.active = FALSE]
        ELSE /\ result' = [call |-> "flow", status |-> "error",
                           errorMessage |-> <<"Maximum call stack size exceeded">>,
                           analysis |-> 0, output |-> <<>>]
             /\ session' = [session EXCEPT !.active = FALSE]
  /\ stack' = <<>>
  /\ ret' = NoRet
  /\ UNCHANGED <<world, content, now, cache, stats, pentries, selectedModel,
                 heap, linearFlow, hist>>
  /\ UNCHANGED <<input, output>>

\* a caller of the FlowAnalyzer interface calls analyzeMethod itself
DirectAnalyze ==
  /\ Idle
  /\ hist.topCalls < MaxTopCalls
  /\ \E key \in {<<"A", "f">>, <<"B", "f">>} :
       stack' = <<Frame("direct", "wait", key[1], key[2], 0),
                  Frame("am", "start", key[1], key[2], 0)>>
  /\ ret' = NoRet
  /\ result' = NoResult
  \* the config argument is merged into finalConfig, of which analyzeMethod
  \* passes maxAnalysisTimeMs on; enableCaching is not read anywhere
  /\ \E enable \in BOOLEAN :
       hist' = [NewTopCall(hist) EXCEPT !.enableCaching = enable]
  /\ UNCHANGED <<world, content, now, cache, stats, pentries, selectedModel,
                 heap, linearFlow, session>>
  /\ UNCHANGED <<input, output>>

DirectDone ==
  /\ Running("direct", "wait")
  /\ ret.kind # "none"
  /\ result' = [call |-> "direct", status |-> heap[ret.obj].analysisStatus,
                errorMessage |-> heap[ret.obj].errorMessage,
                analysis |-> ret.obj, output |-> <<>>]
  /\ stack' = <<>>
  /\ ret' = NoRet
  /\ UNCHANGED <<world, content, now, cache, stats, pentries, selectedModel,
                 heap, linearFlow, session, hist>>
  /\ UNCHANGED <<input, output>>

----------------------------------------------------------------------------
(* The environment *)

\* time passes
Tick ==
  /\ hist.events < MaxEvents
  /\ \E d \in {expiryMs, expiryMs + 1} : now' = now + d
  /\ hist' = [hist EXCEPT !.events = @ + 1]
  /\ UNCHANGED <<world, content, cache, stats, pentries, selectedModel, heap,
                 linearFlow, session, stack, ret, result>>
  /\ UNCHANGED <<input, output>>

\* the chat request's CancellationToken: handleFlowRequest receives it and
\* calls analyzeMethodFlow(className, methodName, stream) without it
isCancellationRequested == hist.cancelled # <<>>

\* the user cancels the chat request while the session runs
CancelRequest ==
  /\ ~Idle
  /\ hist.events < MaxEvents
  /\ ~isCancellationRequested
  /\ hist' = [hist EXCEPT !.events = @ + 1, !.cancelled = <<hist.oracleCalls>>]
  /\ UNCHANGED <<world, content, now, cache, stats, pentries, selectedModel,
                 heap, linearFlow, session, stack, ret, result>>
  /\ UNCHANGED <<input, output>>

\* while the session awaits the oracle, analyzeMethodFlow is called again on
\* the same analyzer. The call runs synchronously up to its first await:
\* createSession builds a session object of its own, runRecursiveFlowAnalysis
\* assigns a new flow to the field this.linearFlow, analyzeMethodRecursively
\* passes its checks on the new session and analyzeMethod reads the
\* in-memory cache. The second session then waits; the first one goes on.
StartSecondFlow ==
  /\ Running("pma", "send")
  /\ session.active
  /\ hist.events < MaxEvents
  /\ hist.second = <<>>
  /\ \E root \in {<<"B", "f">>} :
       LET got == CacheGet(cache, stats, root[1], root[2], defaultConfig, now)
       IN /\ linearFlow' = initializeLinearFlow(root[1], root[2])
          /\ cache' = got.cache
          /\ stats' = got.stats
          /\ hist' = [hist EXCEPT !.events = @ + 1, !.second = <<root>>]
  /\ UNCHANGED <<world, content, now, pentries, selectedModel, heap, session,
                 stack, ret, result>>
  /\ UNCHANGED <<input, output>>

\* a source file is edited
EditSource ==
  /\ Idle
  /\ hist.events < MaxEvents
  /\ \E c \in world.files : content' = [content EXCEPT ![c] = @ + 1]
  /\ hist' = [hist EXCEPT !.events = @ + 1]
  /\ UNCHANGED <<world, now, cache, stats, pentries, selectedModel, heap,
                 linearFlow, session, stack, ret, result>>
  /\ UNCHANGED <<input, output>>

\* resetModelSelection
resetModelSelection ==
  /\ Idle
  /\ hist.events < MaxEvents
  /\ selectedModel # "none"
  /\ selectedModel' = "none"
  /\ hist' = [hist EXCEPT !.events = @ + 1]
  /\ UNCHANGED <<world, content, now, cache, stats, pentries, heap, linearFlow,
                 session, stack, ret, result>>
  /\ UNCHANGED <<input, output>>

\* clearCache
clearCache ==
  /\ Idle
  /\ hist.events < MaxEvents
  /\ cache # <<>> \/ pentries # <<>>
  /\ cache' = <<>>
  /\ stats' = emptyStats
  /\ pentries' = <<>>
  /\ hist' = [hist EXCEPT !.events = @ + 1]
  /\ UNCHANGED <<world, content, now, selectedModel, heap, linearFlow, session,
                 stack, ret, result>>
  /\ UNCHANGED <<input, output>>

----------------------------------------------------------------------------
(* Code bases *)

\* every class not listed answers as a leaf method
Code(rs) == [k \in Keys |-> IF k[1] \in DOMAIN rs THEN rs[k[1]] ELSE Leaf]

World(files, rs, models, workspace) ==
  [files |-> files, resp |-> Code(rs), models |-> models, workspace |-> workspace]

Chain == ("A" :> Calls(<<StepInto("B")>>)) @@ ("B" :> Calls(<<StepInto("C")>>))
         @@ ("C" :> Calls(<<StepInto("D")>>))
SelfRecursive == ("A" :> Calls(<<StepInto("A")>>))
Mutual == ("A" :> Calls(<<StepInto("B")>>)) @@ ("B" :> Calls(<<StepInto("A")>>))
Fan5 == ("A" :> Calls(<<StepInto("B"), StepInto("C"), StepInto("D"),
                        StepInto("E"), StepInto("F")>>))
Diamond == ("A" :> Calls(<<StepInto("B"), StepInto("C")>>))
           @@ ("B" :> Calls(<<StepInto("D")>>)) @@ ("C" :> Calls(<<StepInto("D")>>))
Twice == ("A" :> Calls(<<StepInto("B"), External("E"), StepInto("B")>>))
         @@ ("B" :> Calls(<<Lookup("C")>>))
\* B is a subclass of C and inherits f from it
Inherits == ("A" :> Calls(<<StepInto("B"), StepInto("C")>>))
            @@ ("B" :> NotFound(<<"C">>, <<>>))
InheritsFar == ("A" :> NotFound(<<"E">>, <<"B">>)) @@ ("B" :> NotFound(<<"C">>, <<>>))
               @@ ("C" :> Calls(<<StepInto("D")>>))
SuggestsEachOther == ("A" :> NotFound(<<"B">>, <<>>)) @@ ("B" :> NotFound(<<"A">>, <<>>))
\* the analysis of B fails in one of the ways an inner analysis can fail
Failing(r) == ("A" :> TextResp(<<Blk("first", "MethodCall", <<StepInto("B")>>),
                                 Blk("then", "MethodCall", <<StepInto("C"),
                                                             StepInto("D")>>)>>))
              @@ ("B" :> r) @@ ("C" :> Calls(<<StepInto("D")>>))
\* the oracle does not answer for B.f within maxAnalysisTimeMs; C.f is
\* stepped into before B.f and D.f after it
TimesOut == ("A" :> Calls(<<StepInto("C"), StepInto("B"), StepInto("D")>>))
            @@ ("B" :> OracleTimeout)
\* the same, the oracle answering for B.f in time and streaming too long
StreamsSlowly == ("A" :> Calls(<<StepInto("C"), StepInto("B"), StepInto("D")>>))
                 @@ ("B" :> SlowStream(Leaf.blocks))
Failures == {OracleError, OracleTimeout, Garbage, NotFound(<<>>, <<>>),
             NotFound(<<"E">>, <<>>), Resp("text", {"cannot be found"}, <<>>,
                                           <<"C">>, <<>>, <<>>)}

AllFiles == {"A", "B", "C", "D", "F"}

Worlds ==
  {World(AllFiles, rs, {"M1"}, FALSE) :
     rs \in {Chain, SelfRecursive, Mutual, Fan5, Diamond, Twice, Inherits,
             InheritsFar, SuggestsEachOther, TimesOut, StreamsSlowly}
             \cup {Failing(r) : r \in Failures}}
  \cup {World(AllFiles, rs, {"M1"}, TRUE) : rs \in {Diamond, Twice, Inherits}}
  \cup {World(AllFiles \ {"B"}, Failing(Leaf), {"M1"}, FALSE),
        World(AllFiles \ {"A"}, Chain, {"M1"}, FALSE),
        World(AllFiles, Chain, {}, FALSE)}

\* B is a subclass of A and inherits f from it; A.f is a leaf method
Subclass == ("B" :> NotFound(<<"A">>, <<>>))

ReuseWorlds == {World({"A", "B"}, Subclass, Models, ws) : ws \in BOOLEAN}

----------------------------------------------------------------------------
(* Specifications *)

\* no pure function has been called from outside
NoInput == [fn |-> "none", arg |-> <<>>]
NoOutput == [fn |-> "none", value |-> <<>>]

\* the analyzer after construction
Constructed(worlds) ==
  /\ world \in worlds
  /\ content = [c \in Classes |-> 0]
  /\ now = 0
  /\ cache = <<>>
  /\ stats = emptyStats
  /\ pentries = <<>>
  /\ selectedModel = "none"
  /\ heap = <<>>
  /\ linearFlow = NoFlow
  /\ session = NoSession
  /\ stack = <<>>
  /\ ret = NoRet
  /\ result = NoResult
  /\ hist = InitHist

InitWith(worlds) == Constructed(worlds) /\ input = NoInput /\ output = NoOutput

\* one analyzeMethodFlow session on a fresh analyzer, over all code bases
Init == InitWith(Worlds)

StartFlow == hist.topCalls = 0 /\ StartFlowWith(Roots, Configs)

Next ==
  \/ StartFlow
  \/ RecEnter \/ RecAnalyzed \/ RecCalls \/ RecInner
  \/ AmStart \/ AmFinish
  \/ PmaSend \/ PmaSuggest \/ PmaSuggested
  \/ FlowDone
  \/ Tick
  \/ CancelRequest

Spec == Init /\ [][Next]_vars

\* the same, with a second analyzeMethodFlow call arriving while the session
\* is in flight
NextConcurrent ==
  \/ StartFlow
  \/ RecEnter \/ RecAnalyzed \/ RecCalls \/ RecInner
  \/ AmStart \/ AmFinish
  \/ PmaSend \/ PmaSuggest \/ PmaSuggested
  \/ FlowDone
  \/ StartSecondFlow

SpecConcurrent == Init /\ [][NextConcurrent]_vars

\* several analyzeMethod calls on one analyzer, with edits, model changes,
\* cache clearing and the passing of time in between
InitReuse == InitWith(ReuseWorlds)

TickIdle == Idle /\ Tick

NextReuse ==
  \/ DirectAnalyze \/ DirectDone
  \/ AmStart \/ AmFinish
  \/ PmaSend \/ PmaSuggest \/ PmaSuggested
  \/ TickIdle \/ EditSource \/ resetModelSelection \/ clearCache

SpecReuse == InitReuse /\ [][NextReuse]_vars

\* method resolution on its own: analyzeMethod calls on code bases in which
\* the requested class does not define f and the oracle suggests where to look
\*   SeveralSuggested: A's response names B as parent, C, B again and E (no
\*     file) as alternatives, D and C as interfaces; B does not define f
\*   NoneDefines: every class suggested for A fails in its own way
\*   InheritsFar: f is found two suggestions away; SuggestsEachOther: never
ResolveWorlds ==
  LET SeveralSuggested ==
        ("A" :> Resp("text", {"Method not found"}, <<>>,
                     <<"B">>, <<"C", "B", "E">>, <<"D", "C">>))
        @@ ("B" :> NotFound(<<>>, <<>>))
      NoneDefines ==
        ("A" :> Resp("text", {"Method not found"}, <<>>,
                     <<"B">>, <<"E">>, <<"C">>))
        @@ ("B" :> NotFound(<<>>, <<>>)) @@ ("C" :> OracleError)
  IN {World(AllFiles, rs, {"M1"}, FALSE) :
        rs \in {SeveralSuggested, NoneDefines, InheritsFar, SuggestsEachOther}}

InitResolve == InitWith(ResolveWorlds)

NextResolve ==
  \/ DirectAnalyze \/ DirectDone
  \/ AmStart \/ AmFinish
  \/ PmaSend \/ PmaSuggest \/ PmaSuggested

SpecResolve == InitResolve /\ [][NextResolve]_vars

\* the pure functions of the analyzer, each applied once to an argument drawn
\* from a bounded set
SeqsUpTo(S, n) == UNION {[1..k -> S] : k \in 0..n}

StepInDecisions == {"stepInto", "objectLookup", "external", "notFound"}

\* lists of parsed MethodCall objects; executionOrder tells the objects apart
CallLists ==
  {[i \in 1..Len(q) |->
      [className |-> q[i][1], methodName |-> "f", parameters |-> "",
       stepInDecision |-> q[i][2], expectedBehavior |-> <<"To be analyzed">>,
       executionOrder |-> i - 1]] :
     q \in SeqsUpTo({"A", "B"} \X StepInDecisions, MaxLen)}

\* response texts: some phrases, some blocks
ResponseTexts ==
  {Resp("text", phrases, blocks, <<>>, <<>>, <<>>) :
     phrases \in SUBSET {"Method not found", "cannot be found",
                         "could not be found", "Here is the analysis"},
     blocks \in SeqsUpTo({Blk("work", "Assignment", <<>>),
                          Blk("body", "MethodCall", <<StepInto("B")>>)}, MaxLen)}

\* a durable cache with at most one entry per key, stored at time 0 for some
\* version of the file and some model, and the arguments of a get
StoredEntries(c, id) ==
  {<<>>} \cup {<<[key |-> getCacheKey(c, "f"), analysis |-> id,
                  contentHash |-> calculateContentHash(FileContent(c, v)),
                  modelName |-> model, timestamp |-> 0]>> :
                 v \in {0, 1}, model \in Models}
GetCalls ==
  {[entries |-> a \o b, className |-> c, methodName |-> "f", version |-> v,
    modelName |-> model, now |-> t] :
     a \in StoredEntries("A", 1), b \in StoredEntries("B", 2), c \in {"A", "B"},
     v \in {0, 1}, model \in Models,
     t \in {0, MAX_CACHE_AGE_MS, MAX_CACHE_AGE_MS + 1}}

\* cache files loadCache is applied to, and the entries saveCache writes
EntryShapes == {"null", "no metadata", "no fields in analysis", "entry"}
FileEntries(c, id) ==
  {<<>>} \cup {<<FileEntry(shape, c, id, 0)>> : shape \in EntryShapes}
CacheFiles ==
  {FileMissing, FileUnreadable, FileNotJson, FileJsonNull}
  \cup {FileJson(version, a \o b) :
          version \in {CACHE_VERSION, "0.9.0"},
          a \in FileEntries("A", 1), b \in FileEntries("B", 2)}
LoadCalls ==
  {[file |-> file, now |-> t] :
     file \in CacheFiles, t \in {0, MAX_CACHE_AGE_MS + 1}}
SaveCalls ==
  {[file |-> file, entries |-> a \o b, writable |-> w] :
     file \in {FileMissing, FileNotJson},
     a \in StoredEntries("A", 1), b \in StoredEntries("B", 2),
     w \in BOOLEAN}

\* classification phrases of a citation, and the citation lists of a block
Phrases == {"Step Into", "STEP INTO", "Object Lookup", "External", "Yes", "No",
            "Skip"}
Citations ==
  {Citation(form, "A", "f", phrase) : form \in {"qualified", "malformed"},
                                     phrase \in Phrases}
CitationLists == SeqsUpTo(Citations, MaxLen)

\* durable caches around the maximum size: n entries under distinct keys,
\* stored in ascending or descending order of age, the first few of them
\* written at times 1, 2, ... so that a late clock finds them expired
ManyEntries(n, ascending) ==
  [i \in 1..n |->
     [key |-> getCacheKey("K", ToString(i)), analysis |-> 1,
      contentHash |-> calculateContentHash(FileContent("A", 0)),
      modelName |-> "M1",
      timestamp |-> IF ascending THEN i ELSE n + 1 - i]]
FullCaches ==
  {[entries |-> ManyEntries(n, ascending), now |-> t] :
     n \in {MAX_CACHE_ENTRIES - 1, MAX_CACHE_ENTRIES + 1},
     ascending \in BOOLEAN,
     t \in {MAX_CACHE_ENTRIES + 2, MAX_CACHE_AGE_MS + 2}}
SetCalls ==
  {[entries |-> c.entries, className |-> "A", methodName |-> "f", now |-> c.now] :
     c \in FullCaches}
  \cup {[entries |-> a \o b, className |-> "A", methodName |-> "f", now |-> t] :
          a \in StoredEntries("A", 1), b \in StoredEntries("B", 2),
          t \in {0, MAX_CACHE_AGE_MS, MAX_CACHE_AGE_MS + 1}}
FullFiles ==
  {[file |-> FileJson(CACHE_VERSION,
                      [i \in 1..Len(c.entries) |->
                         [shape |-> "entry", key |-> c.entries[i].key,
                          analysis |-> c.entries[i].analysis,
                          contentHash |-> c.entries[i].contentHash,
                          modelName |-> c.entries[i].modelName,
                          timestamp |-> c.entries[i].timestamp]]),
    now |-> c.now] : c \in FullCaches}

PureInputs ==
  {[fn |-> "buildMethodCallSummary", arg |-> calls] : calls \in CallLists}
  \cup {[fn |-> "parseLLMResponse", arg |-> text] : text \in ResponseTexts}
  \cup {[fn |-> "PersistentGet", arg |-> call] : call \in GetCalls}
  \cup {[fn |-> "loadCache", arg |-> call] : call \in LoadCalls \cup FullFiles}
  \cup {[fn |-> "PersistentSet", arg |-> call] : call \in SetCalls}
  \cup {[fn |-> "extractMethodCallsFromBlock", arg |-> cits] : cits \in CitationLists}
  \cup {[fn |-> "saveCache", arg |-> call] : call \in SaveCalls}

InitPure ==
  /\ Constructed({World(AllFiles, Chain, {"M1"}, FALSE)})
  /\ input \in PureInputs
  /\ output = NoOutput

Returns(value) ==
  /\ output = NoOutput
  /\ output' = [fn |-> input.fn, value |-> value]
  /\ UNCHANGED <<world, content, now, cache, stats, pentries, selectedModel,
                 heap, linearFlow, session, stack, ret, result, hist, input>>

CallBuildMethodCallSummary ==
  /\ input.fn = "buildMethodCallSummary"
  /\ Returns(buildMethodCallSummary(input.arg))

CallParseLLMResponse ==
  /\ input.fn = "parseLLMResponse"
  /\ Returns(parseLLMResponse(input.arg, "A", "f"))

CallPersistentGet ==
  /\ input.fn = "PersistentGet"
  /\ Returns(PersistentGet(input.arg.entries, input.arg.className,
                           input.arg.methodName,
                           FileContent(input.arg.className, input.arg.version),
                           input.arg.modelName, input.arg.now))

CallLoadCache ==
  /\ input.fn = "loadCache"
  /\ Returns(loadCache(input.arg.file, input.arg.now))

CallSaveCache ==
  /\ input.fn = "saveCache"
  /\ Returns(saveCache(input.arg.file, input.arg.entries, input.arg.writable))

CallExtractMethodCallsFromBlock ==
  /\ input.fn = "extractMethodCallsFromBlock"
  /\ Returns(extractMethodCallsFromBlock(input.arg, 0))

CallPersistentSet ==
  /\ input.fn = "PersistentSet"
  /\ Returns(PersistentSet(input.arg.entries, input.arg.className,
                           input.arg.methodName, 3,
                           FileContent(input.arg.className, 0), "M1",
                           input.arg.now))

NextPure ==
  \/ CallPersistentSet
  \/ CallExtractMethodCallsFromBlock
  \/ CallBuildMethodCallSummary
  \/ CallParseLLMResponse
  \/ CallPersistentGet
  \/ CallLoadCache
  \/ CallSaveCache

SpecPure == InitPure /\ [][NextPure]_vars

----------------------------------------------------------------------------
(* The in-memory cache on its own: set and get calls on a cache constructed
   with a small maxEntries, the clock advancing between calls. input is the
   log of the calls made so far, output the outcome of the last one. *)

CacheKeys == {"A", "B", "C"}

\* createMethodAnalysisCache(config): the given fields override the defaults
createMethodAnalysisCache(config) == [defaultConfig EXCEPT !.maxEntries = config.maxEntries]

\* the call log starts with the construction call, whose argument is the
\* configuration of the cache for the rest of the run
MaxEntriesChoices == {1, 2, 3}
cacheConfig == createMethodAnalysisCache(input[1].config)

KeysOf(c) == {c[i].key : i \in 1..Len(c)}

\* the classes a call may name: the cache treats all keys alike, so a class
\* is named for the first time only after the classes before it in the
\* alphabet, and every call sequence is one of these up to renaming
NextCacheKeys ==
  LET Named(c) == \E i \in 1..Len(input) : input[i].key = getCacheKey(c, "f")
      Before(c) == IF c = "A" THEN {} ELSE IF c = "B" THEN {"A"} ELSE {"A", "B"}
  IN {c \in CacheKeys : Named(c) \/ \A b \in Before(c) : Named(b)}

InitCache ==
  /\ Constructed({World(AllFiles, Chain, {"M1"}, FALSE)})
  /\ \E n \in MaxEntriesChoices :
       input = <<[fn |-> "createMethodAnalysisCache", key |-> <<>>,
                  hit |-> FALSE, at |-> 0, config |-> [maxEntries |-> n]]>>
  /\ output = NoOutput

\* cache.set(className, "f", analysis)
CallCacheSet ==
  /\ Len(input) <= MaxCalls
  /\ \E c \in NextCacheKeys :
       LET r == CacheSet(cache, stats, c, "f", 1,
                         generateContentHash(FileContent(c, 0)), cacheConfig, now)
       IN /\ cache' = r.cache
          /\ stats' = r.stats
          /\ input' = Append(input, [fn |-> "set", key |-> getCacheKey(c, "f"),
                                     hit |-> FALSE, at |-> now])
          /\ output' = [fn |-> "set",
                        value |-> [before |-> KeysOf(cache),
                                   evicted |-> KeysOf(cache) \ KeysOf(r.cache)]]
  /\ UNCHANGED <<world, content, now, pentries, selectedModel, heap,
                 linearFlow, session, stack, ret, result, hist>>

\* cache.get(className, "f")
CallCacheGet ==
  /\ Len(input) <= MaxCalls
  /\ \E c \in NextCacheKeys :
       LET r == CacheGet(cache, stats, c, "f", cacheConfig, now)
       IN /\ cache' = r.cache
          /\ stats' = r.stats
          /\ input' = Append(input, [fn |-> "get", key |-> getCacheKey(c, "f"),
                                     hit |-> r.entry # <<>>, at |-> now])
          /\ output' = [fn |-> "get", value |-> r.entry]
  /\ UNCHANGED <<world, content, now, pentries, selectedModel, heap,
                 linearFlow, session, stack, ret, result, hist>>

\* time passes between two calls, once between the same two: a moment, or
\* more than the expiry time
CacheTick ==
  /\ hist.events < MaxEvents
  /\ Len(input) > 1
  /\ Len(input) <= MaxCalls
  /\ now = input[Len(input)].at
  /\ \E d \in {1, expiryMs + 1} : now' = now + d
  /\ hist' = [hist EXCEPT !.events = @ + 1]
  /\ UNCHANGED <<world, content, cache, stats, pentries, selectedModel, heap,
                 linearFlow, session, stack, ret, result, input, output>>

NextCache ==
  \/ CallCacheSet
  \/ CallCacheGet
  \/ CacheTick

SpecCache == InitCache /\ [][NextCache]_vars

----------------------------------------------------------------------------
(* Properties *)

\* the analyzeMethodFlow call has returned
FlowFinished == Idle /\ result.call = "flow"

\* the code base rs with every class resolvable and a model available
Runs(rs, root) ==
  /\ world.resp = Code(rs) /\ world.files = AllFiles /\ world.models # {}
  /\ session.rootMethod = root

RefStatus(key) ==
  IF RefsHas(linearFlow.methodReferences, key)
  THEN heap[RefsGet(linearFlow.methodReferences, key)].analysisStatus
  ELSE "absent"

RefMessage(key) ==
  IF RefsHas(linearFlow.methodReferences, key)
  THEN heap[RefsGet(linearFlow.methodReferences, key)].errorMessage
  ELSE <<>>

\* C1: within one session the oracle is asked at most once for each
\* (className, methodName), requests made while following suggested classes
\* included.
C1_OracleAtMostOncePerKey == \A k \in Keys : hist.oracleCalls[k] <= 1


\* the running analyzeMethod call and the state of its in-memory entry
AmKey == <<Top.className, Top.methodName>>
AmEntryLive ==
  /\ IndexOfKey(cache, AmKey) # 0
  /\ now - cache[IndexOfKey(cache, AmKey)].timestamp <= expiryMs

\* C2: a second analyzeMethod call for the same key, with the source and the
\* selected model unchanged and the entry still live in the in-memory cache,
\* returns at once, without a request to the oracle, the very object the
\* first call returned.
C2_SecondCallSameObject ==
  [][(/\ AmStart
      /\ hist.lastRet[AmKey] # 0
      /\ hist.lastContent[AmKey] = content[AmKey[1]]
      /\ hist.lastModel[AmKey] = selectedModel
      /\ AmEntryLive)
     => (/\ stack' = Front(stack)
         /\ ret' = Value(hist.lastRet[AmKey])
         /\ heap' = heap
         /\ hist'.oracleCalls = hist.oracleCalls)]_vars

\* C2 witness: a later top-level call was answered from the in-memory cache
\* with the object returned before
C2_Witness ==
  /\ hist.topCalls >= 2
  /\ hist.hit
  /\ ret.kind = "value"
  /\ Running("direct", "wait")
  /\ ret.obj = hist.lastRet[<<Top.className, Top.methodName>>]

\* C3: once the source of a cached key has changed, so that its fingerprint
\* differs from the cached contentHash, the next analyzeMethod lookup misses.
C3_ChangedContentMisses ==
  [][(/\ AmStart
      /\ AmEntryLive
      /\ cache[IndexOfKey(cache, AmKey)].contentHash # NoHash
      /\ cache[IndexOfKey(cache, AmKey)].contentHash
           # generateContentHash(FileContent(AmKey[1], content[AmKey[1]])))
     => ~hist'.hit]_vars

\* C4: analyzeMethod never returns an analysis made by a model other than
\* the one that is selected now.
C4_OtherModelNeverReturned ==
  [][(AmStart /\ ret'.kind = "value" /\ selectedModel # "none")
     => \A p \in hist.producer : p[1] = ret'.obj => p[2] = selectedModel]_vars


\* the running analyzeMethodRecursively call meets a key the session has
\* already visited, below the depth limit
RecKey == <<Top.className, Top.methodName>>
Reencounter ==
  /\ RecEnter
  /\ RecKey \in session.analyzedMethods
  /\ Top.depth < session.config.maxCallStackDepth

\* the analysis is the placeholder leaf of a detected cycle
CycleLeaf(analysis) ==
  /\ analysis.analysisStatus = "partial"
  /\ analysis.errorMessage = <<"Circular dependency detected">>
  /\ methodCallSummary(analysis).stepInto = <<>>

\* C5: the re-encounter of an already visited key does not count the key
\* again and yields a placeholder leaf with status partial, marked as a
\* circular dependency.
C5_ReencounterYieldsCycleLeaf ==
  [][Reencounter
     => (/\ session'.totalMethodsAnalyzed = session.totalMethodsAnalyzed
         /\ ret'.kind = "value"
         /\ CycleLeaf(heap'[ret'.obj]))]_vars

\* C6: whenever analyzeMethodFlow reaches the generation of the walkthrough,
\* generateLinearExecutionText finishes: its recursion ends within the
\* runtime stack, for every call relation including self- and mutual
\* recursion.
C6_WalkthroughFinishes ==
  (Running("flow", "root") /\ ret.kind = "value" /\ linearFlow.active
     /\ heap[ret.obj].analysisStatus = "complete")
  => generateLinearExecutionText(heap, linearFlow).ok

\* a finished session on code base rs, every class resolvable, rooted at A.f
\* with the given depth limit and a budget that does not bind
Finished(rs, maxDepth) ==
  /\ FlowFinished
  /\ Runs(rs, <<"A", "f">>)
  /\ session.config.maxCallStackDepth = maxDepth
  /\ session.config.maxTotalMethods = maxTotalMethods

\* the key was sent to the oracle once and its analysis is complete
FullyAnalysed(key) == hist.oracleCalls[key] = 1 /\ RefStatus(key) = "complete"

\* the key got the placeholder of the depth limit, without an oracle request
DepthLimited(key) ==
  /\ hist.oracleCalls[key] = 0
  /\ RefStatus(key) = "partial"
  /\ RefMessage(key) = <<"Maximum recursion depth reached">>

\* C7 as stated: with maxCallStackDepth = 2 the chain A -> B -> C -> D has
\* A, B and C fully analysed and D depth-limited without an oracle request.
C7_DepthTwoAnalysesThree ==
  Finished(Chain, 2)
  => /\ FullyAnalysed(<<"A", "f">>) /\ FullyAnalysed(<<"B", "f">>)
     /\ FullyAnalysed(<<"C", "f">>)
     /\ DepthLimited(<<"D", "f">>)

\* C7 amended: the root is at depth 0 and depth maxCallStackDepth is already
\* cut, so the call stack never holds more than maxCallStackDepth frames;
\* with maxCallStackDepth = 2 the chain has A and B fully analysed and C
\* depth-limited, D is never reached; with maxCallStackDepth = 3 it has A, B
\* and C fully analysed and D depth-limited, never sent to the oracle.
C7_DepthBound ==
  /\ Len(session.callStack) <= session.config.maxCallStackDepth
  /\ Finished(Chain, 2)
     => /\ FullyAnalysed(<<"A", "f">>) /\ FullyAnalysed(<<"B", "f">>)
        /\ DepthLimited(<<"C", "f">>)
        /\ hist.oracleCalls[<<"D", "f">>] = 0 /\ RefStatus(<<"D", "f">>) = "absent"
  /\ Finished(Chain, 3)
     => /\ FullyAnalysed(<<"A", "f">>) /\ FullyAnalysed(<<"B", "f">>)
        /\ FullyAnalysed(<<"C", "f">>)
        /\ DepthLimited(<<"D", "f">>)

\* C7 witness: the chain was analysed with maxCallStackDepth = 2 and C came
\* back as the depth-limited placeholder
C7_Witness == Finished(Chain, 2) /\ DepthLimited(<<"C", "f">>)


\* the key got the placeholder of the method budget, without an oracle request
BudgetLimited(key) ==
  /\ hist.oracleCalls[key] = 0
  /\ key \notin session.analyzedMethods
  /\ RefStatus(key) = "partial"
  /\ RefMessage(key) = <<"Maximum method count reached">>

\* a finished session on the root with five step-into calls to leaf methods,
\* with maxTotalMethods = 3 and a depth limit that lets the calls be entered
FinishedFan5 ==
  /\ FlowFinished
  /\ Runs(Fan5, <<"A", "f">>)
  /\ session.config.maxTotalMethods = 3
  /\ session.config.maxCallStackDepth >= 2

\* C8: session.totalMethodsAnalyzed never exceeds
\* session.config.maxTotalMethods; with maxTotalMethods = 3 and a root with
\* five distinct step-into calls to leaf methods exactly the root and the
\* first two calls are analysed, and each remaining call gets a partial
\* placeholder 'Maximum method count reached' without an oracle request.
C8_BudgetBound ==
  /\ session.totalMethodsAnalyzed <= session.config.maxTotalMethods
  /\ FinishedFan5
     => /\ session.totalMethodsAnalyzed = 3
        /\ session.analyzedMethods = {<<"A", "f">>, <<"B", "f">>, <<"C", "f">>}
        /\ \A k \in session.analyzedMethods : FullyAnalysed(k)
        /\ \A c \in {"D", "E", "F"} : BudgetLimited(<<c, "f">>)

\* C8 witness: the five-call root was analysed under maxTotalMethods = 3 and
\* its last call got the budget placeholder
C8_Witness == FinishedFan5 /\ BudgetLimited(<<"F", "f">>)

\* a finished session rooted at A.f, whose first step-into call B.f fails and
\* whose later calls C.f and D.f are sound, with limits that do not bind
FinishedFailing ==
  /\ FlowFinished
  /\ session.rootMethod = <<"A", "f">>
  /\ session.config = [maxCallStackDepth |-> maxCallStackDepth,
                       maxTotalMethods |-> maxTotalMethods]
  /\ \/ \E r \in Failures : world.resp = Code(Failing(r)) /\ world.files = AllFiles
     \/ world.resp = Code(Failing(Leaf)) /\ world.files = AllFiles \ {"B"}

\* C9: a failure while analysing the inner call B.f (class not found, oracle
\* error, oracle timeout, parse failure) gives that call an analysis with
\* status error; the sibling calls C.f and D.f are still analysed and the
\* parent A.f keeps its status and is returned normally.
C9_InnerFailureIsLocalError ==
  FinishedFailing
  => /\ RefStatus(<<"B", "f">>) = "error"
     /\ hist.oracleCalls[<<"C", "f">>] = 1
     /\ hist.oracleCalls[<<"D", "f">>] = 1
     /\ result.status = "complete"
     /\ heap[result.analysis].analysisStatus = "complete"
     /\ flowKey(heap[result.analysis]) = <<"A", "f">>

\* the class of the session's root method has no file in the workspace
RootUnresolvable == session.rootMethod[1] \notin world.files

\* C10: the session result is 'error' exactly when the root class cannot be
\* resolved.
C10_ErrorIffRootUnresolvable ==
  FlowFinished => (result.status = "error" <=> RootUnresolvable)


\* C11: in every state the steps of the linear flow carry the numbers
\* 1, 2, ..., N in emission order, and linearFlow.totalSteps is the number of
\* the last emitted step.
C11_StepNumbersConsecutive ==
  /\ \A i \in 1..Len(linearFlow.steps) : linearFlow.steps[i].stepNumber = i
  /\ linearFlow.totalSteps = Len(linearFlow.steps)

\* C11 witness: a methodReturn step was emitted and steps of another method
\* were added after it
C11_Witness ==
  \E i \in 1..Len(linearFlow.steps) :
    /\ linearFlow.steps[i].stepType = "methodReturn"
    /\ i < Len(linearFlow.steps)
    /\ linearFlow.steps[i + 1].stepType = "methodStart"


\* the step is the methodCall step of a step-into call
IsStepIntoCall(st) == st.stepType = "methodCall" /\ st.description[1] = "Call"
Callee(st) == <<st.description[2], st.description[3]>>
StartsMethod(st, key) == st.stepType = "methodStart" /\ st.sourceMethod = key

\* C12: in the emitted step sequence the steps of a step-into call's inner
\* method (methodStart ... methodEnd at depth + 1) come immediately after
\* that call's methodCall step, hence before the caller's methodEnd step.
C12_InnerStepsFollowCall ==
  FlowFinished =>
    \A i \in 1..Len(linearFlow.steps) :
      LET st == linearFlow.steps[i]
      IN (/\ IsStepIntoCall(st)
          /\ \E j \in (i + 1)..Len(linearFlow.steps) :
               StartsMethod(linearFlow.steps[j], Callee(st))
          /\ \A j \in 1..(i - 1) : ~StartsMethod(linearFlow.steps[j], Callee(st)))
         => /\ StartsMethod(linearFlow.steps[i + 1], Callee(st))
            /\ linearFlow.steps[i + 1].depth = st.depth + 1


\* the methodStart steps of the key in the step sequence, and the 'starts'
\* lines of the key in the generated walkthrough
StartSteps(key) ==
  Cardinality({i \in 1..Len(linearFlow.steps) :
                 StartsMethod(linearFlow.steps[i], key)})
StartLines(key) ==
  Cardinality({i \in 1..Len(result.output) :
                 /\ result.output[i].kind = "starts"
                 /\ <<result.output[i].className, result.output[i].methodName>> = key})

\* C13: each (className, methodName) contributes at most one
\* methodStart ... methodEnd sequence, to the step sequence and to the
\* generated walkthrough, however many call sites reach it.
C13_EmittedAtMostOnce ==
  \A key \in Keys :
    /\ StartSteps(key) <= 1
    /\ FlowFinished => StartLines(key) <= 1


\* the buckets of a summary, and the place of a call in the bucket
Buckets == {"stepInto", "objectLookup", "external", "notFound"}
InBucket(summary, b, call) == \E i \in 1..Len(summary[b]) : summary[b][i] = call
Ascending(bucket) ==
  \A i, j \in 1..Len(bucket) :
    i < j => bucket[i].executionOrder < bucket[j].executionOrder

\* C14: buildMethodCallSummary puts each parsed call in exactly one of the
\* four buckets: the buckets are pairwise disjoint, their sizes sum to the
\* number of calls, and each bucket keeps the calls' relative order.
C14_SummaryPartitions ==
  output.fn = "buildMethodCallSummary" =>
    LET calls == input.arg
        summary == output.value
    IN /\ \A i \in 1..Len(calls) :
            Cardinality({b \in Buckets : InBucket(summary, b, calls[i])}) = 1
       /\ \A b \in Buckets : \A i \in 1..Len(summary[b]) :
            \E k \in 1..Len(calls) : calls[k] = summary[b][i]
       /\ Len(summary.stepInto) + Len(summary.objectLookup)
            + Len(summary.external) + Len(summary.notFound) = Len(calls)
       /\ \A b \in Buckets : Ascending(summary[b])

\* C14 witness: a list with calls of three different decisions was summarised
C14_Witness ==
  /\ output.fn = "buildMethodCallSummary"
  /\ Len(input.arg) = 3
  /\ output.value.objectLookup # <<>>
  /\ output.value.external # <<>>
  /\ output.value.notFound # <<>>


\* C15: parseLLMResponse returns status complete only if it extracted at
\* least one execution block; a response with no not-found marker and no
\* block marker yields status error.
C15_CompleteOnlyWithBlocks ==
  output.fn = "parseLLMResponse" =>
    /\ output.value.analysisStatus = "complete"
         => output.value.executionBlocks # <<>>
    /\ input.arg.blocks = <<>> => output.value.analysisStatus = "error"


\* the entry stored for the key of a get, <<>> if there is none
StoredFor(call) ==
  SelectSeq(call.entries,
            LAMBDA e : e.key = <<call.className, call.methodName>>)

\* the stored entry matches what the caller supplies
Matches(e, call) ==
  /\ e.contentHash = <<"sha256", call.className, call.version>>
  /\ e.modelName = call.modelName
  /\ call.now - e.timestamp <= MAX_CACHE_AGE_MS

\* C16: PersistentAnalysisCache.get returns the stored analysis only if the
\* stored content hash is the hash of the supplied content, the stored model
\* name is the supplied one and the entry is within the retention window; on
\* a mismatch it returns null and removes the entry, so that a later get with
\* the content and model the entry was stored for misses too.
C16_PersistentGetValidates ==
  output.fn = "PersistentGet" =>
    LET call == input.arg
        stored == StoredFor(call)
        got == output.value
        key == <<call.className, call.methodName>>
    IN /\ got.analysis # <<>>
            => /\ stored # <<>> /\ Matches(stored[1], call)
               /\ got.analysis = <<stored[1].analysis>>
               /\ got.entries = call.entries
       /\ (stored # <<>> /\ Matches(stored[1], call)) => got.analysis # <<>>
       /\ (stored # <<>> /\ ~Matches(stored[1], call))
            => /\ got.analysis = <<>>
               /\ \A i \in 1..Len(got.entries) : got.entries[i].key # key
               /\ Len(got.entries) = Len(call.entries) - 1
               /\ \A v \in {0, 1}, model \in Models :
                    PersistentGet(got.entries, call.className, call.methodName,
                                  FileContent(call.className, v), model,
                                  call.now).analysis = <<>>

\* C16 witness: a get found an entry stored for another model, with another
\* key's entry beside it
C16_Witness ==
  /\ output.fn = "PersistentGet"
  /\ Len(input.arg.entries) = 2
  /\ StoredFor(input.arg) # <<>>
  /\ StoredFor(input.arg)[1].modelName # input.arg.modelName
  /\ output.value.analysis = <<>>

----------------------------------------------------------------------------
(* C17 *)

WellFormed(file) ==
  /\ file.kind = "json"
  /\ file.shape = "object"
  /\ file.version = CACHE_VERSION
  /\ \A i \in 1..Len(file.entries) : file.entries[i].shape = "entry"

\* C17: a cache file that is missing, unreadable, not JSON, structurally
\* corrupt or of another format version leaves the durable cache empty, and
\* neither loadCache nor saveCache throws
C17_BadFileStartsEmpty ==
  /\ output.fn = "loadCache" =>
       /\ ~output.value.threw
       /\ ~WellFormed(input.arg.file) => output.value.entries = <<>>
  /\ output.fn = "saveCache" => ~output.value.threw

\* a file of the current version with an entry whose metadata is intact and
\* whose analysis has none of the fields of a MethodAnalysis is loaded, and
\* get serves that entry
C17_CorruptEntryLoaded ==
  /\ output.fn = "loadCache"
  /\ input.arg.file.kind = "json"
  /\ input.arg.file.shape = "object"
  /\ \E i \in 1..Len(input.arg.file.entries) :
       /\ input.arg.file.entries[i].shape = "no fields in analysis"
       /\ PersistentGet(output.value.entries, "A", "f", FileContent("A", 0),
                        "M1", input.arg.now).analysis
            = <<input.arg.file.entries[i].analysis>>

----------------------------------------------------------------------------
(* C18 *)

\* position in the call log of the set that stored the current entry of key
StoredAt(key) ==
  LET sets == {i \in 1..Len(input) : input[i].fn = "set" /\ input[i].key = key}
  IN IF sets = {} THEN 0
     ELSE CHOOSE i \in sets : \A j \in sets : j <= i

\* the hits of get on the current entry of key, as positions in the call log
ReadsOf(key) ==
  {i \in 1..Len(input) :
     /\ input[i].fn = "get" /\ input[i].key = key /\ input[i].hit
     /\ i > StoredAt(key)}

\* the entry of key a was read by get later than the entry of key b
ReadMoreRecently(a, b) ==
  /\ ReadsOf(a) # {}
  /\ ReadsOf(b) # {}
  /\ \E i \in ReadsOf(a) : \A j \in ReadsOf(b) :
       j < i /\ input[j].at < input[i].at

\* the last call was a set on a full cache, and it evicted an entry
Evicting ==
  /\ output.fn = "set"
  /\ output.value.evicted # {}

\* C18: when a set on a full cache evicts an entry, no entry that stays was
\* read by get less recently than the evicted one
C18_EvictsLeastRecentlyUsed ==
  Evicting =>
    \A k \in output.value.evicted :
      \A j \in output.value.before \ output.value.evicted :
        \* the log still holds the reads of the evicted entry: the set that
        \* evicted it is the last call and stored another key
        ~ReadMoreRecently(k, j)

----------------------------------------------------------------------------
(* C19 *)

\* C19: once cancellation is requested no further oracle invocation is
\* started, and the session ends with status partial
C19_CancellationStopsOracle ==
  isCancellationRequested =>
    /\ hist.oracleCalls = hist.cancelled[1]
    /\ FlowFinished => result.status = "partial"


\* a session that was cancelled, started oracle invocations after that, and
\* ended with status complete
C19_ContinuesAfterCancel ==
  /\ isCancellationRequested
  /\ hist.oracleCalls # hist.cancelled[1]
  /\ FlowFinished
  /\ result.status = "complete"

----------------------------------------------------------------------------
(* C20 *)

\* a finished default session on a code base in which A.f steps into C.f,
\* B.f and D.f in that order and the oracle invocation for B.f exceeds
\* maxAnalysisTimeMs
FinishedExceeding(rs) ==
  /\ FlowFinished
  /\ Runs(rs, <<"A", "f">>)
  /\ session.config = [maxCallStackDepth |-> maxCallStackDepth,
                       maxTotalMethods |-> maxTotalMethods]
  /\ <<"B", "f">> \in hist.exceeded

\* the analysis the session holds for key is the one parsed from the
\* oracle's answer for it
RefAsAnswered(key) ==
  /\ RefStatus(key) = "complete"
  /\ heap[RefsGet(linearFlow.methodReferences, key)].executionBlocks
       = parseLLMResponse(world.resp[key], key[1], key[2]).executionBlocks

\* B.f has status error, the sibling before it is unchanged, the sibling
\* after it is analysed, and the session completes
LocalError ==
  /\ RefStatus(<<"B", "f">>) = "error"
  /\ RefMessage(<<"B", "f">>) = <<"Analysis timeout">>
  /\ hist.oracleCalls[<<"B", "f">>] = 1
  /\ RefAsAnswered(<<"C", "f">>)
  /\ RefAsAnswered(<<"D", "f">>)
  /\ hist.oracleCalls[<<"D", "f">>] = 1
  /\ result.status = "complete"
  /\ heap[result.analysis].analysisStatus = "complete"
  /\ flowKey(heap[result.analysis]) = <<"A", "f">>

\* C20: the method whose oracle invocation exceeded maxAnalysisTimeMs gets an
\* analysis with status error, returned and not thrown; the sibling analysed
\* before it is unchanged, the sibling after it is still analysed, and the
\* session completes
C20_TimeoutIsLocalError ==
  FinishedExceeding(TimesOut) \/ FinishedExceeding(StreamsSlowly) => LocalError

\* what holds: an invocation in which sendRequest itself does not resolve
\* within maxAnalysisTimeMs is a local error
C20_RequestTimeoutIsLocalError ==
  FinishedExceeding(TimesOut) => LocalError

----------------------------------------------------------------------------
(* C21 *)

IsPrefix(s, t) == Len(s) <= Len(t) /\ SubSeq(t, 1, Len(s)) = s

\* C21: while a session runs, the flow it fills is never reset or
\* overwritten: the steps and method references the session has produced stay
C21_SessionOwnsItsFlow ==
  [][session.active /\ session'.active
       => /\ IsPrefix(linearFlow.steps, linearFlow'.steps)
          /\ \A i \in 1..Len(linearFlow.methodReferences) :
               RefsHas(linearFlow'.methodReferences,
                       linearFlow.methodReferences[i].key)]_vars

----------------------------------------------------------------------------
(* C22 *)

\* analyzeMethod('B','f') is about to return a value to its caller, in the
\* code base where B extends A and f is defined on A only
ChildRequestReturns ==
  /\ Running("direct", "wait")
  /\ ret.kind = "value"
  /\ Top.className = "B"
  /\ world.resp = Code(Subclass)

\* C22: requesting Child.run, run being defined on the supertype Base only,
\* yields a complete analysis whose className is Base, or whose className is
\* Child with inheritedFrom = Base
C22_InheritedMethodResolved ==
  ChildRequestReturns =>
    LET analysis == heap[ret.obj]
    IN /\ analysis.analysisStatus = "complete"
       /\ \/ analysis.className = "A"
          \/ analysis.className = "B" /\ analysis.inheritedFrom = "A"

C22_Witness ==
  /\ ChildRequestReturns
  /\ heap[ret.obj].analysisStatus = "complete"
  /\ heap[ret.obj].className = "A"
  /\ hist.oracleCalls[<<"B", "f">>] = 1
  /\ hist.oracleCalls[<<"A", "f">>] = 1

----------------------------------------------------------------------------
(* C23 *)

\* the MethodAnalysis objects the in-memory cache holds
CachedObjects == {cache[i].analysis : i \in 1..Len(cache)}

\* C23: an analysis that is stored in the cache is not modified any more
C23_CachedAnalysisImmutable ==
  [][\A id \in CachedObjects : heap'[id] = heap[id]]_vars

----------------------------------------------------------------------------
(* C24 *)

\* analyzeMethod, called with enableCaching = false, is about to return
UncachedRequestReturns ==
  /\ Running("direct", "wait")
  /\ ret.kind = "value"
  /\ ~hist.enableCaching

\* C24: with enableCaching = false analyzeMethod does not return a cached
\* analysis: the oracle has been invoked for the requested key in this call
C24_CachingSwitchHonoured ==
  UncachedRequestReturns =>
    /\ ~hist.hit
    /\ hist.oracleCalls[<<Top.className, Top.methodName>>] >= 1

----------------------------------------------------------------------------
(* C25 *)

\* analyzeMethodRecursively is entered for a method at a depth that has
\* reached the session's limit
DepthLimitedEntry ==
  /\ Running("rec", "enter")
  /\ Top.depth >= session.config.maxCallStackDepth

\* C25: a method reached at depth >= maxCallStackDepth is not sent to the
\* oracle: the call returns a placeholder with status partial and the reason
\* 'Maximum recursion depth reached', and leaves the visited set, the counter
\* and the call stack of the session as they are, whatever the cycle, budget
\* and identifier checks would say
C25_DepthLimitFirst ==
  [][DepthLimitedEntry /\ stack' # stack
       => /\ stack' = Front(stack)
          /\ ret'.kind = "value"
          /\ heap'[ret'.obj] =
               createPlaceholderAnalysis(Top.className, Top.methodName, "partial",
                                         "Maximum recursion depth reached", now)
          /\ session' = session
          /\ hist'.oracleCalls = hist.oracleCalls]_vars

\* the depth limit is reached for a method that is also a cycle and over budget
C25_Witness ==
  /\ DepthLimitedEntry
  /\ alreadyAnalyzed(<<Top.className, Top.methodName>>, session)
  /\ budgetReached(session)

\* the depth limit is reached for a method whose class name is no identifier
C25_InvalidAtLimit ==
  /\ DepthLimitedEntry
  /\ ~isValidIdentifier(Top.className)

----------------------------------------------------------------------------
(* C26 *)

\* the calls of analyzeMethodRecursively made for the step-into calls of the
\* call at position p: the later calls one level deeper, up to the next call
\* that is not below p
ExpandedFrom(p) ==
  LET e == hist.entered
      below == {q \in (p+1)..Len(e) :
                  /\ e[q].depth = e[p].depth + 1
                  /\ \A r \in (p+1)..q : e[r].depth > e[p].depth}
  IN [i \in 1..Cardinality(below) |->
        e[CHOOSE q \in below : Cardinality({r \in below : r <= q}) = i].key]

\* the step-into calls the parser extracted from the oracle's response for key
ExtractedStepInto(key) ==
  LET calls == buildMethodCallSummary(
                 parseLLMResponse(world.resp[key], key[1], key[2]).methodCalls).stepInto
  IN [i \in 1..Len(calls) |-> <<calls[i].className, calls[i].methodName>>]

\* C26: step-into calls are expanded one after the other in the order the
\* parser extracted them, each with its whole nested recursion before the
\* next, so the session's call stack is one root-to-current path
C26_SequentialInOrder ==
  /\ \A i \in 1..Len(session.callStack) : session.callStack[i].depth = i - 1
  /\ \A q \in 2..Len(hist.entered) :
       hist.entered[q].depth <= hist.entered[q-1].depth + 1
  /\ \A p \in 1..Len(hist.entered) :
       (/\ hist.entered[p].key \in DOMAIN world.resp
        /\ world.resp[hist.entered[p].key].phrases = {})
         => IsPrefix(ExpandedFrom(p), ExtractedStepInto(hist.entered[p].key))

\* the two step-into calls of the root have been expanded, the first with
\* its own step-into call in between
C26_Witness ==
  /\ FlowFinished
  /\ Runs(Diamond, <<"A", "f">>)
  /\ [i \in 1..Len(hist.entered) |-> hist.entered[i].key[1]]
       = <<"A", "B", "D", "C", "D">>

----------------------------------------------------------------------------
(* C27 *)

\* the citations of the block that parseMethodCall accepts
ParsedCitations == SelectSeq(input.arg, LAMBDA cit : cit.form # "malformed")

\* the decision of a recognised phrase, whatever its case
RecognisedAs(phrase) ==
  CASE phrase \in {"Step Into", "STEP INTO"} -> "stepInto"
    [] phrase = "Object Lookup" -> "objectLookup"
    [] phrase = "External" -> "external"
    [] OTHER -> "none"

\* every parsed citation yields one call, in order, whose decision is the
\* phrase's, or the given one when the phrase is not recognised
DecidedWith(unrecognised(_)) ==
  output.fn = "extractMethodCallsFromBlock" =>
    /\ Len(output.value) = Len(ParsedCitations)
    /\ \A i \in 1..Len(ParsedCitations) :
         LET phrase == ParsedCitations[i].classification
         IN output.value[i].stepInDecision =
              IF RecognisedAs(phrase) # "none" THEN RecognisedAs(phrase)
              ELSE unrecognised(phrase)

External_Always(phrase) == "external"
External_UnlessYes(phrase) == IF phrase = "Yes" THEN "stepInto" ELSE "external"

\* C27 as stated: a phrase that is not step into, object lookup or external
\* is mapped to external
C27_UnrecognisedIsExternal == DecidedWith(External_Always)

\* C27 amended: a phrase that is not step into, object lookup or external is
\* mapped to stepInto when it contains 'yes' (the old Yes/No format) and to
\* external otherwise; every parsed call has exactly one decision
C27_UnrecognisedIsExternalUnlessYes == DecidedWith(External_UnlessYes)

C27_Witness ==
  /\ output.fn = "extractMethodCallsFromBlock"
  /\ Len(output.value) = 3
  /\ output.value[1].stepInDecision = "stepInto"
  /\ input.arg[1].classification = "Yes"
  /\ input.arg[2].classification = "Skip"
  /\ input.arg[3].classification = "STEP INTO"

----------------------------------------------------------------------------
(* C28 *)

\* the response text holds one of the phrases parseLLMResponse scans for
HasNotFoundMarker(resp) ==
  resp.phrases \cap {"Method not found", "cannot be found"} # {}

\* C28: a response with a not-found marker is parsed to status error with an
\* error message, no execution block and no method call, whatever blocks and
\* call citations it also contains
C28_NotFoundMarkerWins ==
  (output.fn = "parseLLMResponse" /\ HasNotFoundMarker(input.arg)) =>
    /\ output.value.analysisStatus = "error"
    /\ output.value.errorMessage # <<>>
    /\ output.value.executionBlocks = <<>>
    /\ output.value.methodCalls = <<>>

\* the response parsed to an error has a marker, blocks and a call citation
C28_Witness ==
  /\ output.fn = "parseLLMResponse"
  /\ input.arg.phrases = {"cannot be found"}
  /\ \E i \in 1..Len(input.arg.blocks) : input.arg.blocks[i].calls # <<>>
  /\ output.value.analysisStatus = "error"

----------------------------------------------------------------------------
(* C29 *)

\* the durable cache after loadCache or set, and the entries it was given:
\* those of the file, or the stored ones with the new entry
DurableAfter ==
  IF output.fn = "loadCache" THEN output.value.entries ELSE output.value
DurableGiven ==
  IF output.fn = "loadCache" THEN input.arg.file.entries
  ELSE MapSet(input.arg.entries,
              [key |-> getCacheKey(input.arg.className, input.arg.methodName),
               timestamp |-> input.arg.now])

Retained(e) == input.arg.now - e.timestamp <= MAX_CACHE_AGE_MS

\* loadCache has read a well-formed file, or set has run
DurableCleaned ==
  \/ output.fn = "loadCache" /\ WellFormed(input.arg.file)
  \/ output.fn = "PersistentSet"

\* C29: after construction and after every set the durable cache holds no
\* entry older than the retention window and at most MAX_CACHE_ENTRIES
\* entries; the entries within the window are all kept when they are at most
\* MAX_CACHE_ENTRIES, and otherwise every one that was removed is at least as
\* old as every one that was kept
C29_DurableCacheBounded ==
  /\ output.fn \in {"loadCache", "PersistentSet"} =>
       /\ \A i \in 1..Len(DurableAfter) : Retained(DurableAfter[i])
       /\ Len(DurableAfter) <= MAX_CACHE_ENTRIES
  /\ DurableCleaned =>
       LET kept == {DurableAfter[i].key : i \in 1..Len(DurableAfter)}
           given == {i \in 1..Len(DurableGiven) : Retained(DurableGiven[i])}
       IN /\ Len(DurableAfter) =
               IF Cardinality(given) <= MAX_CACHE_ENTRIES
               THEN Cardinality(given) ELSE MAX_CACHE_ENTRIES
          /\ \A i \in given : DurableGiven[i].key \notin kept =>
               \A j \in 1..Len(DurableAfter) :
                 DurableGiven[i].timestamp <= DurableAfter[j].timestamp

\* a set on a durable cache that already holds more than MAX_CACHE_ENTRIES
\* entries within the window has removed the oldest ones
C29_Witness ==
  /\ output.fn = "PersistentSet"
  /\ Len(input.arg.entries) = MAX_CACHE_ENTRIES + 1
  /\ input.arg.now = MAX_CACHE_ENTRIES + 2
  /\ Len(output.value) = MAX_CACHE_ENTRIES
  /\ output.value[1].timestamp = 3

----------------------------------------------------------------------------
(* C30 *)

\* the step is a set on the in-memory cache
CacheSetStep ==
  /\ input' # input
  /\ input'[Len(input')].fn = "set"

\* C30: after a set the in-memory cache holds at most maxEntries entries; a
\* set on a cache that holds maxEntries entries evicts exactly one entry, one
\* with the smallest timestamp, before it stores its own, and leaves every
\* other entry as it was
C30_EvictsOneOldest ==
  [][CacheSetStep =>
       LET k == input'[Len(input')].key
       IN /\ Len(cache') <= cacheConfig.maxEntries
          /\ Len(cache) = cacheConfig.maxEntries =>
               /\ stats'.evictionCount = stats.evictionCount + 1
               /\ \E i \in 1..Len(cache) :
                    /\ \A j \in 1..Len(cache) :
                         cache[i].timestamp <= cache[j].timestamp
                    /\ KeysOf(cache') = (KeysOf(cache) \ {cache[i].key}) \cup {k}
                    /\ \A j \in 1..Len(cache) :
                         j # i /\ cache[j].key # k =>
                           \E n \in 1..Len(cache') : cache'[n] = cache[j]
          /\ Len(cache) < cacheConfig.maxEntries =>
               /\ stats'.evictionCount = stats.evictionCount
               /\ KeysOf(cache') = KeysOf(cache) \cup {k}]_vars

\* position in the call log of the first set of key
FirstSetOf(key) ==
  CHOOSE i \in 1..Len(input) :
    /\ input[i].fn = "set" /\ input[i].key = key
    /\ \A j \in 1..(i-1) : ~(input[j].fn = "set" /\ input[j].key = key)

\* a set on a full cache of three entries has evicted an entry while an entry
\* whose key was inserted before it stays
C30_Witness ==
  /\ output.fn = "set"
  /\ Cardinality(output.value.before) = cacheConfig.maxEntries
  /\ Len(cache) = cacheConfig.maxEntries
  /\ \E k \in output.value.evicted :
       /\ output.value.evicted = {k}
       /\ \E j \in KeysOf(cache) \cap output.value.before :
            FirstSetOf(j) < FirstSetOf(k)

----------------------------------------------------------------------------
(* C31 *)

\* the step is a get on the in-memory cache
CacheGetStep ==
  /\ input' # input
  /\ input'[Len(input')].fn = "get"

\* C31: get never returns an entry older than expiryMs: such an entry is
\* deleted, a miss is counted and null is returned; an entry within the TTL
\* is returned with its accessCount incremented by one
C31_GetHonoursExpiry ==
  [][CacheGetStep =>
       LET k == input'[Len(input')].key
           i == IndexOfKey(cache, k)
       IN /\ output'.value # <<>> =>
               now - output'.value[1].timestamp <= cacheConfig.expiryMs
          /\ i # 0 /\ now - cache[i].timestamp > cacheConfig.expiryMs =>
               /\ output'.value = <<>>
               /\ k \notin KeysOf(cache')
               /\ Len(cache') = Len(cache) - 1
               /\ stats'.missCount = stats.missCount + 1
               /\ stats'.hitCount = stats.hitCount
          /\ i # 0 /\ now - cache[i].timestamp <= cacheConfig.expiryMs =>
               /\ output'.value = <<[cache[i] EXCEPT !.accessCount = @ + 1]>>
               /\ cache' = [cache EXCEPT ![i].accessCount = @ + 1]
               /\ stats'.hitCount = stats.hitCount + 1
               /\ stats'.missCount = stats.missCount]_vars

\* get was called on a key that was stored more than expiryMs before and was
\* never evicted: it answered null and the entry is gone
C31_Witness ==
  /\ output.fn = "get"
  /\ output.value = <<>>
  /\ stats.evictionCount = 0
  /\ LET k == input[Len(input)].key
     IN /\ input[Len(input)].fn = "get"
        /\ StoredAt(k) # 0
        /\ input[Len(input)].at - input[StoredAt(k)].at > cacheConfig.expiryMs
        /\ k \notin KeysOf(cache)

----------------------------------------------------------------------------
(* C32 *)

FirstIndex(s, x) == CHOOSE i \in 1..Len(s) : s[i] = x /\ \A j \in 1..(i-1) : s[j] # x

\* the classes a not-found response r names ahead of class c: Extends lines
\* come before alternative classes, and these before Implements lines
NamedAhead(r, c) ==
  IF c \in Range(r.extends)
  THEN {r.extends[j] : j \in 1..(FirstIndex(r.extends, c) - 1)}
  ELSE IF c \in Range(r.alternatives)
  THEN Range(r.extends)
       \cup {r.alternatives[j] : j \in 1..(FirstIndex(r.alternatives, c) - 1)}
  ELSE Range(r.extends) \cup Range(r.alternatives)
       \cup {r.implements[j] : j \in 1..(FirstIndex(r.implements, c) - 1)}
Named(r) == Range(r.extends) \cup Range(r.alternatives) \cup Range(r.implements)

\* class c has no file, or the oracle was asked about c.m in this call
TriedOrMissing(c, m) == c \notin world.files \/ hist.oracleCalls[<<c, m>>] >= 1

\* the response for c.m reports the method absent and suggests classes
SuggestsFor(c, m) ==
  /\ <<c, m>> \in DOMAIN world.resp
  /\ world.resp[<<c, m>>].outcome = "text"
  /\ isMethodNotFoundResponse(world.resp[<<c, m>>])
  /\ Named(world.resp[<<c, m>>]) # {}

C32_NoneDefines ==
  /\ Idle /\ result.call = "direct" /\ result.status = "error"
  /\ heap[result.analysis].className = "A"
  /\ hist.oracleCalls[<<"B", "f">>] = 1
  /\ hist.oracleCalls[<<"C", "f">>] = 1

----------------------------------------------------------------------------
(* C33 *)

\* the classes whose performMethodAnalysis is in progress, outermost first
Resolving ==
  [i \in 1..Len(SelectSeq(stack, LAMBDA f : f.fn = "pma")) |->
     SelectSeq(stack, LAMBDA f : f.fn = "pma")[i].className]

\* C33: resolution through suggestions terminates, also when the suggestions
\* are cyclic: the oracle answers the same for the same class, so resolution
\* ends only if no class is asked about again while its own resolution is
\* still in progress
C33_ResolutionTerminates ==
  \A i, j \in 1..Len(Resolving) : i # j => Resolving[i] # Resolving[j]

\* A's response suggests B and B's response suggests A: the resolution of A.f
\* has asked about B and is asking about A again
C33_AskedAgain ==
  /\ world.resp[<<"A", "f">>].extends = <<"B">>
  /\ world.resp[<<"B", "f">>].extends = <<"A">>
  /\ Len(Resolving) >= 3
  /\ Resolving[1] = "A" /\ Resolving[2] = "B" /\ Resolving[3] = "A"

----------------------------------------------------------------------------
(* C34 *)

\* the calls of analyzeMethodRecursively in progress that have passed the
\* checks and pushed their frame, outermost first
PushedCalls == SelectSeq(stack, LAMBDA f : f.fn = "rec" /\ f.pc # "enter")

\* C34: session.callStack holds exactly the frames of the calls of
\* analyzeMethodRecursively still in progress, so a call that returns, with
\* whatever result, leaves the call stack as it found it, and the call stack
\* is empty once the root call has returned
C34_FrameAlwaysPopped ==
  /\ session.callStack =
       [i \in 1..Len(PushedCalls) |->
          [className |-> PushedCalls[i].className,
           methodName |-> PushedCalls[i].methodName,
           depth |-> PushedCalls[i].depth]]
  /\ (FlowFinished \/ (Running("flow", "root") /\ ret.kind # "none")) =>
       session.callStack = <<>>

\* the session is over, an inner analysis has failed, and the call stack is
\* empty again
C34_Witness ==
  /\ FlowFinished
  /\ session.totalMethodsAnalyzed >= 3
  /\ \E id \in 1..Len(heap) :
       /\ heap[id].analysisStatus = "error"
       /\ RefsHas(linearFlow.methodReferences, flowKey(heap[id]))
  /\ session.callStack = <<>>

----------------------------------------------------------------------------
(* C35 *)

PolicyReasons == {"Maximum recursion depth reached", "Circular dependency detected",
                  "Maximum method count reached"}

\* the analysis is a placeholder of a policy limit
PolicyPlaceholder(analysis) ==
  /\ analysis.errorMessage # <<>>
  /\ analysis.errorMessage[1] \in PolicyReasons

\* the placeholders of this session that were returned for a step-into call
StepIntoPlaceholders ==
  {id \in 1..Len(heap) :
     /\ PolicyPlaceholder(heap[id])
     /\ \E i \in 1..Len(hist.entered) :
          /\ hist.entered[i].key = flowKey(heap[id])
          /\ hist.entered[i].depth >= 1}

\* the walkthrough shows the method of key as a leaf below a call of it:
\* the call, the method's start, its one block and its end, nothing nested
LeafAtCallSite(key) ==
  \E i \in 1..(Len(result.output) - 3) : \E d \in 0..maxCallStackDepth :
    /\ result.output[i] = Line(d, "call", key[1], key[2])
    /\ result.output[i + 1] = Line(d + 1, "starts", key[1], key[2])
    /\ result.output[i + 2] = Line(d + 1, "block", key[1], key[2])
    /\ result.output[i + 3] = Line(d + 1, "completes", key[1], key[2])

\* the session is over and its walkthrough was generated
WalkthroughGenerated ==
  FlowFinished /\ result.status = "complete" /\ result.output # <<>>

\* C35: every placeholder of a policy limit has status partial, and when the
\* walkthrough is generated each placeholder returned for a step-into call is
\* in the flow's method map under the call's key and shows as a leaf at a
\* call site of that key
C35_PlaceholderIntegrated ==
  /\ \A id \in 1..Len(heap) :
       PolicyPlaceholder(heap[id]) => heap[id].analysisStatus = "partial"
  /\ WalkthroughGenerated =>
       \A id \in StepIntoPlaceholders :
         /\ RefsHas(linearFlow.methodReferences, flowKey(heap[id]))
         /\ PolicyPlaceholder(heap[RefsGet(linearFlow.methodReferences,
                                           flowKey(heap[id]))])
         /\ LeafAtCallSite(flowKey(heap[id]))

\* the depth limit has cut C.f below A.f and B.f, and the walkthrough shows
\* C.f as a leaf where B.f calls it
C35_LeafShown ==
  /\ WalkthroughGenerated
  /\ Runs(Chain, <<"A", "f">>)
  /\ \E id \in StepIntoPlaceholders : flowKey(heap[id]) = <<"C", "f">>
  /\ LeafAtCallSite(<<"C", "f">>)


\* the same for the placeholders whose key has no complete analysis in the
\* session
C35_WhereKeyHasNoCompleteAnalysis ==
  WalkthroughGenerated =>
    \A id \in StepIntoPlaceholders :
      (\A other \in 1..Len(heap) :
         flowKey(heap[other]) = flowKey(heap[id]) =>
           heap[other].analysisStatus # "complete") =>
        /\ RefsHas(linearFlow.methodReferences, flowKey(heap[id]))
        /\ PolicyPlaceholder(heap[RefsGet(linearFlow.methodReferences,
                                          flowKey(heap[id]))])
        /\ LeafAtCallSite(flowKey(heap[id]))

----------------------------------------------------------------------------
(* C36 *)

\* C36: a key for which the flow's method map holds a complete analysis
\* keeps a complete analysis for as long as the session runs
C36_CompleteEntryStays ==
  [][session.active /\ session'.active =>
       \A key \in Keys :
         RefStatus(key) = "complete" =>
           /\ RefsHas(linearFlow'.methodReferences, key)
           /\ heap'[RefsGet(linearFlow'.methodReferences, key)].analysisStatus
                = "complete"]_vars

\* the entry of the root method A.f, once complete, is the placeholder of
\* the depth limit, and the walkthrough starts from that placeholder
C36_RootReplaced ==
  /\ WalkthroughGenerated
  /\ session.rootMethod = <<"A", "f">>
  /\ heap[result.analysis].analysisStatus = "complete"
  /\ PolicyPlaceholder(heap[RefsGet(linearFlow.methodReferences, <<"A", "f">>)])

----------------------------------------------------------------------------
(* C37 *)

\* the oracle's response for class c describes the method itself
DefinedOn(c, m) ==
  /\ <<c, m>> \in DOMAIN world.resp
  /\ world.resp[<<c, m>>].outcome = "text"
  /\ parseLLMResponse(world.resp[<<c, m>>], c, m).analysisStatus = "complete"

\* C37: a complete analysis returned by analyzeMethod names, as className,
\* a class whose own response produced the complete analysis, however many
\* suggestions were followed to reach it
C37_ChainNamesDefiningType ==
  (Idle /\ result.call = "direct" /\ result.status = "complete") =>
    DefinedOn(heap[result.analysis].className, heap[result.analysis].methodName)

\* A.f was resolved through B to C, whose response holds the analysis, and
\* the returned analysis names B
C37_NamesIntermediate ==
  /\ Idle /\ result.call = "direct" /\ result.status = "complete"
  /\ world.resp[<<"A", "f">>].alternatives = <<"B">>
  /\ world.resp[<<"B", "f">>].extends = <<"C">>
  /\ DefinedOn("C", "f")
  /\ heap[result.analysis].className = "B"
  /\ heap[result.analysis].inheritedFrom = "A"
  /\ heap[result.analysis].executionBlocks =
       parseLLMResponse(world.resp[<<"C", "f">>], "C", "f").executionBlocks

----------------------------------------------------------------------------
(* C38 *)

\* C38: totalMethodsAnalyzed is the size of analyzedMethods; every frame of
\* the call stack has its key in analyzedMethods; no key is on the call stack
\* twice; the i-th frame from the bottom, counted from 0, has depth i; the
\* call stack holds at most maxCallStackDepth frames
C38_SessionInvariants ==
  LET cs == session.callStack
  IN /\ session.totalMethodsAnalyzed = Cardinality(session.analyzedMethods)
     /\ \A i \in 1..Len(cs) :
          /\ <<cs[i].className, cs[i].methodName>> \in session.analyzedMethods
          /\ cs[i].depth = i - 1
          /\ \A j \in 1..Len(cs) :
               i # j => <<cs[i].className, cs[i].methodName>>
                          # <<cs[j].className, cs[j].methodName>>
     /\ Len(cs) <= session.config.maxCallStackDepth

\* a session is three frames deep, under a limit of three
C38_Witness ==
  /\ session.active
  /\ session.config.maxCallStackDepth = 3
  /\ Len(session.callStack) = 3
  /\ session.totalMethodsAnalyzed = 3

----------------------------------------------------------------------------
(* C39 *)

\* C39: stats.totalEntries is the number of entries stored, and stats.hitRate
\* is hitCount / (hitCount + missCount), 0 when both are 0
C39_StatsMatchCache ==
  /\ stats.totalEntries = Len(cache)
  /\ stats.hitRate = IF stats.hitCount + stats.missCount > 0
                     THEN <<stats.hitCount, stats.hitCount + stats.missCount>>
                     ELSE <<0, 1>>

\* get has found an expired entry and deleted it: the cache is empty and
\* totalEntries still counts the entry
C39_StaleTotal ==
  /\ output.fn = "get"
  /\ output.value = <<>>
  /\ cache = <<>>
  /\ stats.totalEntries = 1
  /\ stats.missCount = 1

====
